---------------------------- MODULE Spec2Model ----------------------------
(***************************************************************************)
(* The terminal session connection manager of the TmuxDeck web client     *)
(* (frontend/src/components/Terminal.tsx): the WebSocket lifecycle         *)
(* (connect, reconnect with backoff, tap-to-reconnect, visibility          *)
(* recovery, disposal), the outbound control frames (RESIZE,               *)
(* SELECT_WINDOW, SCROLL, SHIFT_ENTER, raw input) and the scroll-mode      *)
(* flag.                                                                   *)
(*                                                                         *)
(* One step of the model is one run of one event handler on the           *)
(* single-threaded event loop.  `out` holds the frames the last step sent, *)
(* in order; `ev` names the handler that ran.                              *)
(***************************************************************************)
EXTENDS Integers, Sequences, FiniteSets, TLC

(* ------------------------------ constants ----------------------------- *)

RECONNECT_INITIAL_DELAY_MS == 500

RECONNECT_MAX_DELAY_MS == 10000

RECONNECT_MAX_ATTEMPTS == 15

LINES_PER_TICK == 3

WHEEL_THROTTLE_MS == 50

TOUCH_THROTTLE_MS == 50

PX_PER_LINE == 20

(* ------------------------------- bounds ------------------------------- *)

\* WebSocket objects that exist at the same time (a closed, unreferenced one
\* is forgotten and its slot reused).
MaxSockets == 2

\* Clock ticks of 1000 ms counted while the page is hidden.
MaxTicks == 3

\* Distinct (cols, rows) pairs the fit addon can propose.
NumDims == 2

\* Window indexes 0..MaxWindow.
MaxWindow == 1

\* Clipboard reads in flight at once.
MaxClip == 1

\* In SpecIO the transport fails only while fewer than this many retries
\* have been scheduled.
IOFailures == 1

\* User and layout events handled while the component is mounted.
MaxInputs == 2

\* Image uploads in flight at once.
MaxUploads == 2

\* Wheel, touch, select-mode and page-key events handled in SpecTouch.
MaxTouches == 6

\* Decay loops of touch momentum running at once.
MaxLoops == 2

\* Milliseconds the clock of the throttles is followed for after an event.
MaxElapsed == 50

\* Characters in the text input field.
MaxText == 2

\* Sessions in the array given to sortSessionsByOrder.
MaxSessions == 3

\* Ids in the order array given to sortSessionsByOrder.
MaxOrder == 3

(* ------------------------------- state -------------------------------- *)

VARIABLES
    reconnectAttempt,       \* let reconnectAttempt
    reconnectTimer,         \* NoTimer, or the delay of the pending timer
    timers,                 \* setTimeout callbacks queued: neither run nor cleared
    wsUrl,                  \* const wsUrl of setupWebSocketTerminal
    disposed,               \* let disposed
    hasConnectedOnce,       \* let hasConnectedOnce
    tapToReconnectActive,   \* let tapToReconnectActive
    currentClose,           \* socket whose close() currentClose holds, or NoSock
    wsRef,                  \* wsRef.current: a socket, or NoSock
    socks,                  \* every WebSocket: readyState, onclose attached, rAF ticks left
    visibilityState,        \* document.visibilityState
    hiddenAt,               \* 0, or 1 for a timestamp > 0
    sinceHidden,            \* Date.now() - hiddenAt in ms, while hiddenAt > 0
    attached,               \* listeners and xterm disposables still registered
    inScrollMode,           \* inScrollMode.current
    lastSentDims,           \* lastSentDimsRef.current: NoDims or <<cols, rows>>
    termDims,               \* <<term.cols, term.rows>>
    proposed,               \* fitAddon.proposeDimensions(): NoDims or <<cols, rows>>
    windowIndex,            \* windowIndexRef.current
    fitPending,             \* 0, or n: a doFit retry attempt(n - 1) is queued
    clipPending,            \* clipboard.readText() promises not yet resolved
    visible,                \* the `visible` prop
    visRaf,                 \* animation frames left before the visible effect refits
    mountRaf,               \* animation frames left before the initial fit
    touchVelocity,          \* touchVelocity, in 1/1000000 px per ms
    momentum,               \* per decay loop: NoMomentum, or its socket and velocity
    momentumRafId,          \* the decay loop whose queued frame momentumRafId names, or 0
    selectMode,             \* selectModeRef.current
    fingers,                \* fingers on the screen
    touchStartY,            \* touchStartY, in px
    touchLastY,             \* touchLastY, in px
    sinceWheel,             \* Date.now() - lastWheelTime, in ms
    sinceTouch,             \* Date.now() - lastTouchTime, in ms
    showTextInput,          \* const [showTextInput, setShowTextInput]
    inputValue,             \* textInputRef.current.value, a sequence of characters
    prevInput,              \* prevInputRef.current
    composing,              \* composingRef.current
    uploads,                \* uploadAndInject calls awaiting fetch: file and captured socket
    mouseWarning,           \* const [mouseWarning, setMouseWarning]
    bellWarning,            \* const [bellWarning, setBellWarning]: Null or a BellWarning
    received,               \* the frame ws.onmessage handled in the last step, if any
    out,                    \* frames sent by the last step
    written,                \* what the last step wrote to the terminal (term.write, clear)
    steps,                  \* the statements of a disposal, in the order the last step ran them
    prevResize,             \* per socket: last RESIZE frame sent before the last step
    sinceWheelFrame,        \* history: ms since the last SCROLL frame of a wheel event
    sinceTouchFrame,        \* history: ms since the last SCROLL frame of a touch move
    failures,               \* history: consecutive failed connection attempts
    everOpened,             \* history: some socket of this manager has opened
    inputs,                 \* history: user and layout events handled while mounted
    ev,                     \* history: the handler that ran in the last step
    sessions,               \* the array passed to sortSessionsByOrder
    order,                  \* the order array passed to sortSessionsByOrder
    sorted                  \* the call of sortSessionsByOrder: made or not, and its result

termVars == <<reconnectAttempt, reconnectTimer, timers, wsUrl, disposed, hasConnectedOnce,
          tapToReconnectActive, currentClose, wsRef, socks, visibilityState,
          hiddenAt, sinceHidden, attached, inScrollMode, lastSentDims, termDims,
          proposed, windowIndex, fitPending, clipPending, visible, visRaf,
          mountRaf, touchVelocity, momentum, momentumRafId, selectMode, fingers,
          touchStartY, touchLastY, sinceWheel, sinceTouch, showTextInput, inputValue,
          prevInput, composing, uploads, mouseWarning,
          bellWarning, received, out, written, steps, sinceWheelFrame, sinceTouchFrame, prevResize, failures, everOpened, inputs, ev>>

vars == <<termVars, sessions, order, sorted>>

NoSock == 0

NoTimer == << >>

NoDims == << >>

NoMomentum == << >>

Loops == 1..MaxLoops

\* lastWheelTime = 0, lastTouchTime = 0: the epoch is far in the past.
Forever == 1000000000
\* bellWarning === null
Null == [isNull |-> TRUE, bellAction |-> FALSE, visualBell |-> FALSE]

Slots == 1..MaxSockets

Dim(i) == <<80 + 20 * ((i - 1) \div 2), 24 + 6 * ((i - 1) % 2)>>

DimsSet == {Dim(i) : i \in 1..NumDims}

\* `${protocol}//${host}/ws/terminal/${containerId}/${sessionName}/${windowIndex}`
WsUrl(w) == "/ws/terminal/containerId/sessionName/" \o ToString(w)

Fresh == [readyState |-> "NONE", onclose |-> FALSE, raf |-> 0, url |-> ""]

RECURSIVE Pow(_, _)
Pow(b, n) == IF n = 0 THEN 1 ELSE b * Pow(b, n - 1)

Min(a, b) == IF a <= b THEN a ELSE b

\* Last RESIZE frame on socket k once the frames of `o` are on the wire.
RECURSIVE LastResize(_, _, _)
LastResize(o, k, before) ==
    IF o = << >> THEN before
    ELSE LET f == o[Len(o)]
         IN IF f.sock = k /\ f.kind = "RESIZE" THEN f.frame
            ELSE LastResize(SubSeq(o, 1, Len(o) - 1), k, before)

\* The state a handler starts from: nothing sent yet in this step.
Cur ==
    [reconnectAttempt |-> reconnectAttempt, reconnectTimer |-> reconnectTimer,
     timers |-> timers, wsUrl |-> wsUrl,
     disposed |-> disposed, hasConnectedOnce |-> hasConnectedOnce,
     tapToReconnectActive |-> tapToReconnectActive,
     currentClose |-> currentClose, wsRef |-> wsRef, socks |-> socks,
     visibilityState |-> visibilityState, hiddenAt |-> hiddenAt,
     sinceHidden |-> sinceHidden, attached |-> attached,
     inScrollMode |-> inScrollMode, lastSentDims |-> lastSentDims,
     termDims |-> termDims, proposed |-> proposed, windowIndex |-> windowIndex,
     fitPending |-> fitPending, clipPending |-> clipPending,
     visible |-> visible, visRaf |-> visRaf, mountRaf |-> mountRaf,
     touchVelocity |-> touchVelocity, momentum |-> momentum,
     momentumRafId |-> momentumRafId, selectMode |-> selectMode, fingers |-> fingers,
     touchStartY |-> touchStartY, touchLastY |-> touchLastY,
     sinceWheel |-> sinceWheel, sinceTouch |-> sinceTouch,
     sinceWheelFrame |-> sinceWheelFrame, sinceTouchFrame |-> sinceTouchFrame,
     showTextInput |-> showTextInput, inputValue |-> inputValue,
     prevInput |-> prevInput, composing |-> composing,
     uploads |-> uploads,
     mouseWarning |-> mouseWarning, bellWarning |-> bellWarning,
     received |-> << >>,
     out |-> << >>,
     written |-> << >>,
     steps |-> << >>,
     prevResize |-> [k \in Slots |-> LastResize(out, k, prevResize[k])],
     failures |-> failures, everOpened |-> everOpened, inputs |-> inputs]

\* Socket k is held by an upload in flight or by the momentum loop.
Captured(s, k) ==
    \/ \E i \in 1..Len(s.uploads) : s.uploads[i].ws = k
    \/ \E j \in Loops : s.momentum[j] # NoMomentum /\ s.momentum[j].sock = k

\* A closed socket that nothing refers to any more is forgotten.
Forget(s) ==
    [k \in Slots |->
        IF /\ s.socks[k].readyState = "CLOSED"
           /\ s.socks[k].raf = 0
           /\ k # s.currentClose
           /\ k # s.wsRef
           /\ ~Captured(s, k)
        THEN Fresh ELSE s.socks[k]]

\* The state a handler has produced becomes the next state (the handler's
\* result is computed once).
Commit(st, e) ==
    \E s \in {st} :
        /\ reconnectAttempt' = s.reconnectAttempt
        /\ reconnectTimer' = s.reconnectTimer
        /\ timers' = s.timers
        /\ wsUrl' = s.wsUrl
        /\ disposed' = s.disposed
        /\ hasConnectedOnce' = s.hasConnectedOnce
        /\ tapToReconnectActive' = s.tapToReconnectActive
        /\ currentClose' = s.currentClose
        /\ wsRef' = s.wsRef
        /\ socks' = Forget(s)
        /\ visibilityState' = s.visibilityState
        /\ hiddenAt' = s.hiddenAt
        /\ sinceHidden' = s.sinceHidden
        /\ attached' = s.attached
        /\ inScrollMode' = s.inScrollMode
        /\ lastSentDims' = s.lastSentDims
        /\ termDims' = s.termDims
        /\ proposed' = s.proposed
        /\ windowIndex' = s.windowIndex
        /\ fitPending' = s.fitPending
        /\ clipPending' = s.clipPending
        /\ visible' = s.visible
        /\ visRaf' = s.visRaf
        /\ mountRaf' = s.mountRaf
        /\ touchVelocity' = s.touchVelocity
        /\ momentum' = s.momentum
        /\ momentumRafId' = s.momentumRafId
        /\ selectMode' = s.selectMode
        /\ fingers' = s.fingers
        /\ touchStartY' = s.touchStartY
        /\ touchLastY' = s.touchLastY
        /\ sinceWheel' = s.sinceWheel
        /\ sinceTouch' = s.sinceTouch
        /\ sinceWheelFrame' = s.sinceWheelFrame
        /\ sinceTouchFrame' = s.sinceTouchFrame
        /\ showTextInput' = s.showTextInput
        /\ inputValue' = s.inputValue
        /\ prevInput' = s.prevInput
        /\ composing' = s.composing
        /\ uploads' = s.uploads
        /\ mouseWarning' = s.mouseWarning
        /\ bellWarning' = s.bellWarning
        /\ received' = s.received
        /\ out' = s.out
        /\ written' = s.written
        /\ steps' = s.steps
        /\ prevResize' = [k \in Slots |-> IF s.socks[k].readyState \in {"NONE", "CLOSED"}
                                           THEN "" ELSE s.prevResize[k]]
        /\ failures' = s.failures
        /\ everOpened' = s.everOpened
        /\ inputs' = s.inputs
        /\ ev' = e
        /\ UNCHANGED <<sessions, order, sorted>>

(* ------------------------------ the socket ---------------------------- *)

\* `ws && ws.readyState === WebSocket.OPEN`
IsOpen(s, k) == k # NoSock /\ s.socks[k].readyState = "OPEN"

\* ws.send(frame), recorded with the sender `by` and the socket's
\* readyState at the moment of the send.
wsSend(s, k, kind, frame, by) ==
    [s EXCEPT !.out = Append(@, [sock |-> k, kind |-> kind, frame |-> frame, by |-> by,
                                 rs |-> s.socks[k].readyState])]

\* close() without `ws.onclose = null`.
closeKeepHandler(s, k) ==
    [s EXCEPT !.socks[k].readyState =
                  IF @ \in {"CONNECTING", "OPEN"} THEN "CLOSING" ELSE @]

\* close() of connectWebSocket: detach onclose, then ws.close().
close(s, k) ==
    [s EXCEPT !.socks[k].onclose = FALSE,
              !.socks[k].readyState =
                  IF @ \in {"CONNECTING", "OPEN"} THEN "CLOSING" ELSE @]

ResizeFrame(d) == "RESIZE:" \o ToString(d[1]) \o ":" \o ToString(d[2])

(* ------------------------------ lifecycle ----------------------------- *)

\* term.writeln / term.write / term.clear, recorded in order.
termWrite(s, what) == [s EXCEPT !.written = Append(@, what)]

\* The delay without Math.min(..., RECONNECT_MAX_DELAY_MS).
ReconnectDelayNoCap(a) == <<(RECONNECT_INITIAL_DELAY_MS \div 4) * Pow(3, a), Pow(2, a)>>

\* delay = min(500 * 1.5^a, 10000) ms, kept exact as <<num, den>> with
\* delay = 4 * num / den: num = min(125 * 3^a, 2500 * 2^a), den = 2^a.
ReconnectDelay(a) ==
    <<Min((RECONNECT_INITIAL_DELAY_MS \div 4) * Pow(3, a),
          (RECONNECT_MAX_DELAY_MS \div 4) * Pow(2, a)),
      Pow(2, a)>>

\* scheduleReconnect without the RECONNECT_MAX_ATTEMPTS branch: it keeps retrying.
scheduleReconnectNoCap(s) ==
    IF s.disposed \/ s.reconnectTimer # NoTimer THEN s
    ELSE [termWrite(s, "[Reconnecting...]") EXCEPT !.reconnectTimer = ReconnectDelay(Min(s.reconnectAttempt, RECONNECT_MAX_ATTEMPTS)),
                   !.timers = @ + 1,
                   !.reconnectAttempt = Min(@ + 1, RECONNECT_MAX_ATTEMPTS)]

\* scheduleReconnect()
scheduleReconnect(s) ==
    IF s.disposed \/ s.reconnectTimer # NoTimer THEN s
    ELSE IF s.reconnectAttempt >= RECONNECT_MAX_ATTEMPTS
         THEN [termWrite(s, "[Connection lost - tap to reconnect]")
                  EXCEPT !.tapToReconnectActive = TRUE]
         ELSE [termWrite(s, "[Reconnecting...]")
                  EXCEPT !.reconnectTimer = ReconnectDelay(s.reconnectAttempt),
                        !.timers = @ + 1,
                        !.reconnectAttempt = @ + 1]

\* doConnect dropping the previous close handle without calling it.
ClosePreviousSkip(s) == [s EXCEPT !.currentClose = NoSock, !.wsRef = NoSock]

\* doConnect up to `wsRef.current = null`: the previous socket is closed.
ClosePrevious(s) ==
    [(IF s.currentClose # NoSock THEN close(s, s.currentClose) ELSE s)
        EXCEPT !.currentClose = NoSock, !.wsRef = NoSock]

\* Slots a new WebSocket can take: no socket, or a closed one nothing refers to.
FreeSlots(s) ==
    {k \in Slots : /\ s.socks[k].readyState \in {"NONE", "CLOSED"}
                   /\ s.socks[k].raf = 0
                   /\ k # s.wsRef
                   /\ k # s.currentClose
                   /\ ~Captured(s, k)}

NewSlot(s) == CHOOSE k \in FreeSlots(s) : \A j \in FreeSlots(s) : k <= j

CanConnect(s) == s.disposed \/ FreeSlots(ClosePrevious(s)) # {}

\* doConnect building the URL from the window index of the moment.
doConnectCurrentWindow(s) ==
    IF s.disposed THEN s
    ELSE LET s1 == ClosePrevious(s)
             k == NewSlot(s1)
         IN [s1 EXCEPT !.socks[k] = [readyState |-> "CONNECTING", onclose |-> TRUE, raf |-> 0,
                                     url |-> WsUrl(s.windowIndex)],
                       !.prevResize[k] = "",
                       !.currentClose = k]

\* doConnect(): close the previous attempt, create the next socket.
doConnect(s) ==
    IF s.disposed THEN s
    ELSE LET s1 == ClosePrevious(s)
             k == NewSlot(s1)
         IN [s1 EXCEPT !.socks[k] = [readyState |-> "CONNECTING", onclose |-> TRUE, raf |-> 0,
                                     url |-> s.wsUrl],
                       !.prevResize[k] = "",
                       !.currentClose = k]

\* onConnected without the `if (hasConnectedOnce)` test.
onConnectedAlwaysClear(s, k) ==
    IF s.disposed THEN close(s, k)
    ELSE [termWrite(termWrite(s, "clear"), "[Reconnected]")
             EXCEPT !.wsRef = k,
                    !.hasConnectedOnce = TRUE,
                    !.reconnectAttempt = 0,
                    !.tapToReconnectActive = FALSE,
                    !.failures = 0]

\* The onConnected callback doConnect passes for socket k.
onConnected(s, k) ==
    IF s.disposed THEN close(s, k)
    ELSE [(IF s.hasConnectedOnce
           THEN termWrite(termWrite(s, "clear"), "[Reconnected]")
           ELSE s)
             EXCEPT !.wsRef = k,
                   !.hasConnectedOnce = TRUE,
                   !.reconnectAttempt = 0,
                   !.tapToReconnectActive = FALSE,
                   !.failures = 0]

\* History: a close of a socket that never opened (wsRef.current is still
\* null) is one more consecutive failed connection attempt.
FailuresAfter(s) ==
    IF s.wsRef = NoSock THEN Min(s.failures + 1, RECONNECT_MAX_ATTEMPTS + 2) ELSE s.failures

\* onDisconnected without the call of scheduleReconnect().
onDisconnectedNoRetry(s) ==
    IF s.disposed THEN s
    ELSE [s EXCEPT !.wsRef = NoSock, !.failures = FailuresAfter(s)]

\* The onDisconnected callback doConnect passes.
onDisconnected(s) ==
    IF s.disposed THEN s
    ELSE scheduleReconnect([s EXCEPT !.wsRef = NoSock, !.failures = FailuresAfter(s)])

\* handleTapReconnect without `reconnectAttempt = 0`.
handleTapReconnectNoReset(s) ==
    IF s.tapToReconnectActive /\ ~s.disposed
    THEN doConnect([s EXCEPT !.tapToReconnectActive = FALSE, !.failures = 0])
    ELSE s

\* handleTapReconnect without `tapToReconnectActive = false`.
handleTapReconnectStaysArmed(s) ==
    IF s.tapToReconnectActive /\ ~s.disposed
    THEN doConnect([s EXCEPT !.reconnectAttempt = 0, !.failures = 0])
    ELSE s

\* handleTapReconnect without the `tapToReconnectActive` test.
handleTapReconnectAlways(s) ==
    IF ~s.disposed
    THEN doConnect([s EXCEPT !.tapToReconnectActive = FALSE,
                             !.reconnectAttempt = 0,
                             !.failures = 0])
    ELSE s

\* handleTapReconnect: the click listener on the terminal element.
handleTapReconnect(s) ==
    IF s.tapToReconnectActive /\ ~s.disposed
    THEN doConnect([s EXCEPT !.tapToReconnectActive = FALSE,
                             !.reconnectAttempt = 0,
                             !.failures = 0])
    ELSE s

\* wasHiddenLong with >= in place of >.
wasHiddenLongAtLeast(s) == s.hiddenAt > 0 /\ s.sinceHidden >= 2000

\* hiddenAt > 0 && (Date.now() - hiddenAt) > 2000
wasHiddenLong(s) == s.hiddenAt > 0 /\ s.sinceHidden > 2000

\* The condition of the force-reconnect branch of handleVisibilityChange.
ShouldForceReconnect(s) ==
    \/ s.wsRef = NoSock
    \/ s.socks[s.wsRef].readyState = "CLOSED"
    \/ s.socks[s.wsRef].readyState = "CLOSING"
    \/ wasHiddenLong(s)

\* if (reconnectTimer !== null) { clearTimeout(reconnectTimer); reconnectTimer = null; }
clearReconnectTimer(s) ==
    IF s.reconnectTimer # NoTimer
    THEN [s EXCEPT !.reconnectTimer = NoTimer, !.timers = @ - 1]
    ELSE s

\* handleVisibilityChange reconnecting without clearTimeout(reconnectTimer).
handleVisibilityChangeKeepTimer(s) ==
    IF s.visibilityState = "hidden"
    THEN [s EXCEPT !.hiddenAt = 1, !.sinceHidden = 0]
    ELSE IF s.visibilityState # "visible" \/ s.disposed THEN s
    ELSE IF ShouldForceReconnect(s)
         THEN doConnect([s EXCEPT !.reconnectAttempt = 0,
                                  !.tapToReconnectActive = FALSE,
                                  !.failures = 0])
         ELSE s

\* handleVisibilityChange, run with document.visibilityState already updated.
handleVisibilityChange(s) ==
    IF s.visibilityState = "hidden"
    THEN [s EXCEPT !.hiddenAt = 1, !.sinceHidden = 0]
    ELSE IF s.visibilityState # "visible" \/ s.disposed THEN s
    ELSE IF ShouldForceReconnect(s)
         THEN doConnect([clearReconnectTimer(s) EXCEPT
                                  !.reconnectAttempt = 0,
                                  !.tapToReconnectActive = FALSE,
                                  !.failures = 0])
         ELSE s

\* cleanup without clearTimeout(reconnectTimer).
cleanupKeepTimer(s) ==
    LET s1 == [s EXCEPT !.disposed = TRUE, !.attached = FALSE]
    IN IF s1.currentClose # NoSock THEN close(s1, s1.currentClose) ELSE s1

\* One statement of a disposal has run.
step(s, statement) == [s EXCEPT !.steps = Append(@, statement)]

run(s, statements) == [s EXCEPT !.steps = @ \o statements]

\* The listeners and xterm disposables that cleanup() removes.
ManagerListeners ==
    <<"removeEventListener(click)", "removeEventListener(visibilitychange)",
      "dataDisposable.dispose()", "binaryDisposable.dispose()",
      "resizeDisposable.dispose()", "scrollExitDisposable.dispose()">>

\* currentClose?.() of cleanup().
cleanupClose(s) ==
    IF s.currentClose # NoSock
    THEN step(step(close(s, s.currentClose), "ws.onclose = null"), "ws.close()")
    ELSE s

\* cleanup() closing the socket first.
cleanupCloseFirst(s) ==
    LET s0 == cleanupClose(s)
        s1 == step([s0 EXCEPT !.disposed = TRUE], "disposed = true")
        s2 == IF s1.reconnectTimer # NoTimer
              THEN step(clearReconnectTimer(s1), "clearTimeout(reconnectTimer)")
              ELSE s1
    IN run([s2 EXCEPT !.attached = FALSE], ManagerListeners)

\* cleanup(): disposed, timer cleared, listeners removed, socket closed.
cleanup(s) ==
    LET s1 == step([s EXCEPT !.disposed = TRUE], "disposed = true")
        s2 == IF s1.reconnectTimer # NoTimer
              THEN step(clearReconnectTimer(s1), "clearTimeout(reconnectTimer)")
              ELSE s1
        s3 == run([s2 EXCEPT !.attached = FALSE], ManagerListeners)
    IN cleanupClose(s3)

(* ------------------------------- Init ---------------------------------- *)

\* The component is mounted (with the default `visible` = true) and
\* setupWebSocketTerminal has run: the initial doConnect() has created the
\* first socket, and the animation frames of the mount effects are queued.
Mounted ==
    /\ reconnectAttempt = 0
    /\ reconnectTimer = NoTimer
    /\ timers = 0
    /\ wsUrl = WsUrl(0)
    /\ disposed = FALSE
    /\ hasConnectedOnce = FALSE
    /\ tapToReconnectActive = FALSE
    /\ currentClose = 1
    /\ wsRef = NoSock
    /\ socks = [k \in Slots |-> IF k = 1
                                 THEN [readyState |-> "CONNECTING", onclose |-> TRUE, raf |-> 0,
                                       url |-> WsUrl(0)]
                                 ELSE Fresh]
    /\ visibilityState = "visible"
    /\ hiddenAt = 0
    /\ sinceHidden = 0
    /\ attached = TRUE
    /\ inScrollMode = FALSE
    /\ lastSentDims = NoDims
    /\ termDims = Dim(1)
    /\ proposed = Dim(1)
    /\ windowIndex = 0
    /\ fitPending = 0
    /\ clipPending = 0
    /\ visible = TRUE
    /\ visRaf = 0
    /\ mountRaf = 2
    /\ touchVelocity = 0
    /\ momentum = [j \in Loops |-> NoMomentum]
    /\ momentumRafId = 0
    /\ selectMode = FALSE
    /\ fingers = 0
    /\ touchStartY = 0
    /\ touchLastY = 0
    /\ sinceWheel = Forever
    /\ sinceTouch = Forever
    /\ sinceWheelFrame = Forever
    /\ sinceTouchFrame = Forever
    /\ showTextInput = FALSE
    /\ inputValue = << >>
    /\ prevInput = << >>
    /\ composing = FALSE
    /\ uploads = << >>
    /\ mouseWarning = FALSE
    /\ bellWarning = Null
    /\ received = << >>
    /\ out = << >>
    /\ written = << >>
    /\ steps = << >>
    /\ prevResize = [k \in Slots |-> ""]
    /\ failures = 0
    /\ everOpened = FALSE
    /\ inputs = 0
    /\ ev = "init"

\* sortSessionsByOrder has not been called.
NotCalled == [called |-> FALSE, ret |-> << >>, same |-> FALSE]

Init ==
    /\ Mounted
    /\ sessions = << >>
    /\ order = << >>
    /\ sorted = NotCalled

(* ------------------------- lifecycle actions --------------------------- *)

\* ws.onopen of socket k: the transport reports the connection open.  The
\* deferred dimension announcement is queued behind two animation frames.
SocketOpen(k) ==
    /\ socks[k].readyState = "CONNECTING"
    /\ LET s1 == [Cur EXCEPT !.socks[k].readyState = "OPEN"]
           s2 == onConnected(s1, k)
       IN Commit([s2 EXCEPT !.socks[k].raf = 2, !.everOpened = TRUE], "open")

\* The second callback announces the dimensions without looking at the
\* socket's readyState.
RafTickNoOpenCheck(k) ==
    /\ socks[k].raf > 0
    /\ LET s == Cur
       IN IF s.socks[k].raf = 2
          THEN Commit([s EXCEPT !.socks[k].raf = 1], "raf")
          ELSE LET s1 == [s EXCEPT !.socks[k].raf = 0]
               IN Commit(IF s1.proposed # NoDims
                         THEN wsSend(s1, k, "RESIZE", ResizeFrame(s1.proposed), "onopen")
                         ELSE s1,
                         "raf")

\* The two requestAnimationFrame callbacks queued by ws.onopen of socket k.
RafTick(k) ==
    /\ socks[k].raf > 0
    /\ LET s == Cur
       IN IF s.socks[k].raf = 2
          THEN Commit([s EXCEPT !.socks[k].raf = 1], "raf")
          ELSE LET s1 == [s EXCEPT !.socks[k].raf = 0]
               IN Commit(IF s1.socks[k].readyState = "OPEN" /\ s1.proposed # NoDims
                         THEN wsSend(s1, k, "RESIZE", ResizeFrame(s1.proposed), "onopen")
                         ELSE s1,
                         "raf")

\* The peer starts the closing handshake: readyState is CLOSING until the
\* close event.
ServerClosing(k) ==
    /\ socks[k].readyState = "OPEN"
    /\ socks[k].onclose
    /\ Commit([Cur EXCEPT !.socks[k].readyState = "CLOSING"], "closing")

\* The close event of socket k (after an error, a drop, or a closing
\* handshake): ws.onclose runs if it is still attached.
SocketClose(k) ==
    /\ socks[k].readyState \in {"CONNECTING", "OPEN", "CLOSING"}
    /\ LET s1 == [Cur EXCEPT !.socks[k].readyState = "CLOSED"]
       IN Commit(IF s1.socks[k].onclose THEN onDisconnected(s1) ELSE s1, "close")

\* The setTimeout callback of scheduleReconnect.
TimerFire ==
    /\ timers > 0
    /\ CanConnect(Cur)
    /\ LET s1 == [Cur EXCEPT !.reconnectTimer = NoTimer, !.timers = @ - 1]
       IN Commit(IF ~s1.disposed THEN doConnect(s1) ELSE s1, "timer")

\* A click on the terminal element (ev is "tap" when the handler's
\* tap-to-reconnect branch runs).
Click ==
    /\ (attached /\ tapToReconnectActive) => CanConnect(Cur)
    /\ Commit(IF attached THEN handleTapReconnect(Cur) ELSE Cur,
              IF attached /\ tapToReconnectActive /\ ~disposed THEN "tap" ELSE "click")

\* The document's visibilitychange event.
VisibilityChange ==
    LET s1 == [Cur EXCEPT !.visibilityState = IF @ = "visible" THEN "hidden" ELSE "visible"]
    IN /\ (attached /\ s1.visibilityState = "visible" /\ ShouldForceReconnect(s1))
              => CanConnect(s1)
       /\ Commit(IF attached THEN handleVisibilityChange(s1) ELSE s1,
                 IF s1.visibilityState = "visible" THEN "visible" ELSE "hidden")

\* 1000 ms pass while the page is hidden.
Tick ==
    /\ visibilityState = "hidden"
    /\ hiddenAt > 0
    /\ sinceHidden < MaxTicks * 1000
    /\ Commit([Cur EXCEPT !.sinceHidden = @ + 1000], "tick")

\* cancelAnimationFrame(momentumRafId): the queued frame it names, if that
\* frame has not run yet, is dropped, and with it the decay loop.
cancelMomentum(s) ==
    IF s.momentumRafId = 0 THEN s
    ELSE [s EXCEPT !.momentum[s.momentumRafId] = NoMomentum, !.momentumRafId = 0]

\* The listeners of the wrapper element that the effect cleanup removes.
WrapperListeners ==
    <<"resizeObserver.disconnect()", "removeEventListener(paste)",
      "removeEventListener(dragover)", "removeEventListener(dragleave)",
      "removeEventListener(drop)", "removeEventListener(wheel)",
      "removeEventListener(touchstart)", "removeEventListener(touchmove)",
      "removeEventListener(touchend)">>

\* The cleanup of the component's main effect (unmount).
Unmount ==
    /\ ~disposed
    /\ LET s1 == step([Cur EXCEPT !.mountRaf = IF @ = 2 THEN 0 ELSE @],
                      "cancelAnimationFrame(rafId)")
           s2 == step(cancelMomentum(s1), "cancelAnimationFrame(momentumRafId)")
           s3 == run(s2, <<"oscDisposable.dispose()", "selectionDisposable.dispose()">>)
           s4 == cleanup(s3)
           s5 == [s4 EXCEPT !.wsRef = NoSock,
                            !.lastSentDims = NoDims,
                            !.inScrollMode = FALSE]
       IN Commit(step(run(s5, WrapperListeners), "term.dispose()"), "unmount")

\* cleanup() called once more on a disposed manager.
CleanupAgain ==
    /\ disposed
    /\ Commit(cleanup(Cur), "cleanup")

Lifecycle ==
    \/ \E k \in Slots : SocketOpen(k)
    \/ \E k \in Slots : RafTick(k)
    \/ \E k \in Slots : ServerClosing(k)
    \/ TimerFire
    \/ Click
    \/ VisibilityChange
    \/ Unmount
    \/ CleanupAgain

Next ==
    \/ Lifecycle
    \/ Tick
    \/ \E k \in Slots : SocketClose(k)

Spec == Init /\ [][Next]_vars

\* ws.onerror: the handler is empty, the close event that follows does the work.
SocketError(k) ==
    /\ socks[k].readyState \in {"CONNECTING", "OPEN"}
    /\ Commit(Cur, "error")

\* The lifecycle with the transport's error events.
NextLife ==
    \/ Next
    \/ \E k \in Slots : SocketError(k)

SpecLife == Init /\ [][NextLife]_vars

\* The lifecycle without the clock of the hidden page.
NextFair ==
    \/ Lifecycle
    \/ \E k \in Slots : SocketClose(k)

\* The event loop runs a due setTimeout callback and queued animation
\* frames, and a socket whose close() was called does get closed.
SpecFair ==
    /\ Init /\ [][NextFair]_vars
    /\ WF_vars(TimerFire)
    /\ \A k \in Slots : WF_vars(RafTick(k))
    /\ \A k \in Slots : WF_vars(~socks[k].onclose /\ SocketClose(k))

(* -------------------------- frames and input --------------------------- *)

\* sendResize(force)
sendResize(s, force) ==
    IF IsOpen(s, s.wsRef)
    THEN IF s.proposed # NoDims
         THEN IF ~force /\ s.lastSentDims # NoDims /\ s.lastSentDims = s.proposed
              THEN s
              ELSE wsSend([s EXCEPT !.lastSentDims = s.proposed], s.wsRef, "RESIZE",
                          ResizeFrame(s.proposed),
                          IF force THEN "sendResize(true)" ELSE "sendResize")
         ELSE s
    ELSE s

\* resizeDisposable: term.onResize(({cols, rows}) => ...)
onResize(s) ==
    IF s.attached /\ IsOpen(s, s.wsRef)
    THEN wsSend(s, s.wsRef, "RESIZE", ResizeFrame(s.termDims), "onResize")
    ELSE s

\* fitAddon.fit(): resize the terminal to the proposed dimensions; xterm
\* fires onResize when they differ from the current ones.
fit(s) ==
    IF s.proposed = NoDims \/ s.proposed = s.termDims THEN s
    ELSE onResize([s EXCEPT !.termDims = s.proposed])

\* An attempt that finds the container without a size always queues a retry.
fitAttemptRetryForever(s, remaining) ==
    IF ~s.attached THEN s
    ELSE IF s.proposed # NoDims THEN fit(s)
    ELSE [s EXCEPT !.fitPending = 3]

\* One attempt(remaining) of doFit / fitAndResize.  The container has no
\* size exactly when no dimensions can be proposed.  Queued retries all run
\* in the next animation frame and fit() is idempotent, so of several queued
\* retries only the one with the most retries left is kept.
fitAttempt(s, remaining) ==
    IF ~s.attached THEN s
    ELSE IF s.proposed # NoDims THEN fit(s)
    ELSE IF remaining > 0
         THEN [s EXCEPT !.fitPending = IF @ > remaining THEN @ ELSE remaining]
    ELSE s

doFit(s) == fitAttempt(s, 3)

\* dataDisposable: term.onData forwards the input bytes.
dataHandler(s, data) ==
    IF IsOpen(s, s.wsRef) THEN wsSend(s, s.wsRef, "RAW", data, "onData") ELSE s

\* The scroll-exit handler leaving the flag set while the socket is not open.
scrollExitOnlyWhenOpen(s) ==
    IF s.inScrollMode /\ IsOpen(s, s.wsRef)
    THEN wsSend([s EXCEPT !.inScrollMode = FALSE], s.wsRef, "SCROLL", "SCROLL:exit", "scrollExit")
    ELSE s

\* scrollExitDisposable: the second term.onData handler.
scrollExit(s) ==
    IF s.inScrollMode
    THEN LET s1 == [s EXCEPT !.inScrollMode = FALSE]
         IN IF IsOpen(s1, s1.wsRef)
            THEN wsSend(s1, s1.wsRef, "SCROLL", "SCROLL:exit", "scrollExit")
            ELSE s1
    ELSE s

\* onData with the scroll-exit handler run before the forwarding handler.
onDataExitFirst(s, data) == dataHandler(scrollExit(s), data)

\* xterm emits onData to the handlers in registration order.
onData(s, data) == scrollExit(dataHandler(s, data))

\* Keydown events: a printable key, Shift+Enter, the platform copy chord
\* with and without a selection, the paste chord, paging and arrow keys.
Keys == {"a", "Shift+Enter", "Copy", "CopyNoSelection", "Paste",
         "PageUp", "PageDown", "ArrowUp", "ArrowDown"}

\* The bytes xterm produces for a key it processes itself.
KeyData(key) ==
    CASE key = "ArrowUp" -> "ESC[A"
      [] key = "ArrowDown" -> "ESC[B"
      [] key = "CopyNoSelection" -> "ETX"
      [] OTHER -> key

\* customKeyEventHandler without the scroll-mode arrow branch.
customKeyEventHandlerNoArrows(s, key) ==
    IF key = "Shift+Enter"
    THEN [st |-> IF IsOpen(s, s.wsRef)
                 THEN wsSend(s, s.wsRef, "SHIFT_ENTER", "SHIFT_ENTER:", "key")
                 ELSE s,
          ret |-> FALSE]
    ELSE IF key = "Copy" THEN [st |-> s, ret |-> FALSE]
    ELSE IF key = "Paste"
         THEN [st |-> [s EXCEPT !.clipPending = @ + 1], ret |-> FALSE]
    ELSE IF key \in {"PageUp", "PageDown"}
         THEN [st |-> IF IsOpen(s, s.wsRef)
                      THEN IF key = "PageUp"
                           THEN wsSend([s EXCEPT !.inScrollMode = TRUE], s.wsRef, "SCROLL",
                                       "SCROLL:up:" \o ToString(s.termDims[2]), "key")
                           ELSE wsSend(s, s.wsRef, "SCROLL",
                                       "SCROLL:down:" \o ToString(s.termDims[2]), "key")
                      ELSE s,
               ret |-> FALSE]
    ELSE [st |-> s, ret |-> TRUE]

\* term.attachCustomKeyEventHandler: ret = FALSE stops xterm from
\* processing the key.
customKeyEventHandler(s, key) ==
    IF key = "Shift+Enter"
    THEN [st |-> IF IsOpen(s, s.wsRef)
                 THEN wsSend(s, s.wsRef, "SHIFT_ENTER", "SHIFT_ENTER:", "key")
                 ELSE s,
          ret |-> FALSE]
    ELSE IF key = "Copy" THEN [st |-> s, ret |-> FALSE]
    ELSE IF key = "Paste"
         THEN [st |-> [s EXCEPT !.clipPending = @ + 1], ret |-> FALSE]
    ELSE IF key \in {"PageUp", "PageDown"}
         THEN [st |-> IF IsOpen(s, s.wsRef)
                      THEN IF key = "PageUp"
                           THEN wsSend([s EXCEPT !.inScrollMode = TRUE], s.wsRef, "SCROLL",
                                       "SCROLL:up:" \o ToString(s.termDims[2]), "key")
                           ELSE wsSend(s, s.wsRef, "SCROLL",
                                       "SCROLL:down:" \o ToString(s.termDims[2]), "key")
                      ELSE s,
               ret |-> FALSE]
    ELSE IF s.inScrollMode /\ key \in {"ArrowUp", "ArrowDown"}
         THEN [st |-> IF IsOpen(s, s.wsRef)
                      THEN wsSend(s, s.wsRef, "SCROLL",
                                  IF key = "ArrowUp" THEN "SCROLL:up:1" ELSE "SCROLL:down:1",
                                  "key")
                      ELSE s,
               ret |-> FALSE]
    ELSE [st |-> s, ret |-> TRUE]

sendToWs(s, data) ==
    IF IsOpen(s, s.wsRef) THEN wsSend(s, s.wsRef, "RAW", data, "sendToWs") ELSE s

\* sendVirtualKey(data, isScroll): isScroll is "up", "down" or "" (absent).
sendVirtualKey(s, data, isScroll) ==
    IF isScroll # "" /\ s.inScrollMode
    THEN IF IsOpen(s, s.wsRef)
         THEN wsSend(s, s.wsRef, "SCROLL", "SCROLL:" \o isScroll \o ":1", "sendToWs")
         ELSE s
    ELSE sendToWs(s, data)

\* The buttons of the virtual key toolbar.
VirtualKeys == {<<"ESC", "">>, <<"ESC[D", "">>, <<"ESC[B", "down">>, <<"ESC[A", "up">>}

(* ---------------------------- input actions ---------------------------- *)

\* At most MaxInputs user and layout events are handled while mounted.
CanInput == attached => inputs < MaxInputs

\* The state an input handler starts from.
In == [Cur EXCEPT !.inputs = IF attached THEN @ + 1 ELSE @]

\* A keydown on the focused terminal.
KeyDown(key) ==
    /\ CanInput
    /\ key = "Paste" => clipPending < MaxClip
    /\ LET s == In
           r == customKeyEventHandler(s, key)
       IN Commit(IF ~s.attached THEN s
                 ELSE IF r.ret THEN onData(r.st, KeyData(key))
                 ELSE r.st,
                 "input")

\* navigator.clipboard.readText() resolves with `text`.
ClipboardResolve(text) ==
    /\ clipPending > 0
    /\ LET s == [Cur EXCEPT !.clipPending = @ - 1]
       IN Commit(IF text # "" /\ IsOpen(s, s.wsRef)
                 THEN wsSend(s, s.wsRef, "RAW", text, "paste")
                 ELSE s,
                 "input")

\* A tap on a virtual toolbar key.
VirtualKey(v) ==
    /\ CanInput
    /\ Commit(IF attached THEN sendVirtualKey(In, v[1], v[2]) ELSE In,
              "input")

\* The SELECT_WINDOW effect calling sendResize() without force.
WindowSwitchUnforced(n) ==
    /\ CanInput
    /\ attached
    /\ n # windowIndex
    /\ LET s == [In EXCEPT !.windowIndex = n]
       IN Commit(IF IsOpen(s, s.wsRef)
                 THEN sendResize(wsSend(s, s.wsRef, "SELECT_WINDOW",
                                        "SELECT_WINDOW:" \o ToString(n), "windowSwitch"),
                                 FALSE)
                 ELSE s,
                 "input")

\* The windowIndex prop changes to n: the SELECT_WINDOW effect runs.
WindowSwitch(n) ==
    /\ CanInput
    /\ attached
    /\ n # windowIndex
    /\ LET s == [In EXCEPT !.windowIndex = n]
       IN Commit(IF IsOpen(s, s.wsRef)
                 THEN sendResize(wsSend(s, s.wsRef, "SELECT_WINDOW",
                                        "SELECT_WINDOW:" \o ToString(n), "windowSwitch"),
                                 TRUE)
                 ELSE s,
                 "input")

\* The container's layout changes; the ResizeObserver runs fitAndResize().
LayoutChange(d) ==
    /\ CanInput
    /\ attached
    /\ d # proposed
    /\ Commit(fitAttempt([In EXCEPT !.proposed = d], 3), "input")

\* TerminalHandle.refit(): doFit(); sendResize().
Refit ==
    /\ CanInput
    /\ attached
    /\ Commit(sendResize(doFit(In), FALSE), "input")

\* A retry of doFit queued with requestAnimationFrame.
FitRetry ==
    /\ fitPending > 0
    /\ Commit(fitAttempt([Cur EXCEPT !.fitPending = 0], fitPending - 1), "input")

\* The two animation frames after mount.  The callbacks queued by the
\* mount effects run in the order the effects ran.  First frame: the
\* toolbar effect's doFit(); sendResize().  Second frame: the initial fit's
\* fitAndResize(); sendResize(true), then the visible effect's doFit();
\* sendResize().  Unmounting cancels the initial fit if its first frame has
\* not run; the other callbacks find the refs cleared.
MountRaf ==
    /\ mountRaf > 0
    /\ LET s == [Cur EXCEPT !.mountRaf = @ - 1]
       IN Commit(IF mountRaf = 2
                 THEN sendResize(doFit(s), FALSE)
                 ELSE sendResize(doFit(sendResize(fitAttempt(s, 3), TRUE)), FALSE),
                 "mount")

\* The `visible` prop changes after mount: the visible effect queues two
\* animation frames when the terminal becomes visible (and blurs it
\* otherwise).  A new change is taken once the frames of the previous one
\* have run.
SetVisible ==
    /\ CanInput
    /\ attached
    /\ visRaf = 0
    /\ Commit([In EXCEPT !.visible = ~@, !.visRaf = IF visible THEN 0 ELSE 2], "input")

\* The animation frames of the visible effect: doFit(); sendResize().
RestoreRaf ==
    /\ visRaf > 0
    /\ LET s == [Cur EXCEPT !.visRaf = @ - 1]
       IN Commit(IF visRaf = 2 THEN s ELSE sendResize(doFit(s), FALSE), "restore")

\* The transport fails only while fewer than IOFailures retries are counted.
SocketCloseIO(k) ==
    /\ (socks[k].onclose /\ ~disposed) => reconnectAttempt < IOFailures
    /\ SocketClose(k)

Input ==
    \/ \E key \in Keys : KeyDown(key)
    \/ \E text \in {"", "clip"} : ClipboardResolve(text)
    \/ \E v \in VirtualKeys : VirtualKey(v)
    \/ \E n \in 0..MaxWindow : WindowSwitch(n)
    \/ \E d \in DimsSet \cup {NoDims} : LayoutChange(d)
    \/ Refit
    \/ FitRetry
    \/ MountRaf
    \/ SetVisible
    \/ RestoreRaf

\* The lifecycle while the page stays in the foreground (the document's
\* visibilitychange is followed in Spec), with the user's input.
NextIO ==
    \/ \E k \in Slots : SocketOpen(k)
    \/ \E k \in Slots : RafTick(k)
    \/ \E k \in Slots : ServerClosing(k)
    \/ \E k \in Slots : SocketCloseIO(k)
    \/ TimerFire
    \/ Click
    \/ Unmount
    \/ CleanupAgain
    \/ Input

SpecIO == Init /\ [][NextIO]_vars

(* ---------------------- wheel, touch and banners ---------------------- *)

Abs(x) == IF x < 0 THEN -x ELSE x

Max(a, b) == IF a >= b THEN a ELSE b

\* Math.round(num / den) for num >= 0, den > 0.
Round(num, den) == (2 * num + den) \div (2 * den)

ScrollFrame(dir, lines) == "SCROLL:" \o dir \o ":" \o ToString(lines)

\* a / b rounded towards zero.
Quot(a, b) == IF a < 0 THEN -((-a) \div b) ELSE a \div b

\* handleWheel forwarding every wheel event.
handleWheelNoThrottle(s, deltaY) ==
    LET s1 == [s EXCEPT !.sinceWheel = 0]
        lines == Max(1, Round(Abs(deltaY), 40) * LINES_PER_TICK)
    IN IF ~IsOpen(s1, s1.wsRef) THEN s1
       ELSE IF deltaY < 0
            THEN wsSend([s1 EXCEPT !.inScrollMode = TRUE], s1.wsRef, "SCROLL",
                        ScrollFrame("up", lines), "wheel")
       ELSE wsSend(s1, s1.wsRef, "SCROLL", ScrollFrame("down", lines), "wheel")

\* handleWheel
handleWheel(s, deltaY) ==
    IF s.sinceWheel < WHEEL_THROTTLE_MS THEN s
    ELSE LET s1 == [s EXCEPT !.sinceWheel = 0]
             lines == Max(1, Round(Abs(deltaY), 40) * LINES_PER_TICK)
         IN IF ~IsOpen(s1, s1.wsRef) THEN s1
            ELSE IF deltaY < 0
                 THEN wsSend([s1 EXCEPT !.inScrollMode = TRUE], s1.wsRef, "SCROLL",
                             ScrollFrame("up", lines), "wheel")
            ELSE wsSend(s1, s1.wsRef, "SCROLL", ScrollFrame("down", lines), "wheel")

\* handleTouchStart, for a first finger at clientY = y.
handleTouchStart(s, y) ==
    IF s.selectMode THEN s
    ELSE cancelMomentum([s EXCEPT !.touchStartY = y, !.touchLastY = y,
                                  !.touchVelocity = 0])

\* handleTouchMove without the dead zone around the touch start.
handleTouchMoveNoDeadZone(s, y) ==
    IF s.selectMode THEN s
    ELSE IF s.sinceTouch < TOUCH_THROTTLE_MS THEN s
    ELSE LET deltaY == s.touchLastY - y
             elapsed == IF s.sinceTouch = 0 THEN 1 ELSE s.sinceTouch
             s1 == [s EXCEPT !.touchVelocity = Quot(deltaY * 1000000, elapsed),
                             !.sinceTouch = 0,
                             !.touchLastY = y]
             lines == Max(1, Round(Abs(deltaY), PX_PER_LINE))
         IN IF ~IsOpen(s1, s1.wsRef) THEN s1
            ELSE IF deltaY > 0
                 THEN wsSend([s1 EXCEPT !.inScrollMode = TRUE], s1.wsRef, "SCROLL",
                             ScrollFrame("up", lines), "touch")
            ELSE IF deltaY < 0
                 THEN wsSend(s1, s1.wsRef, "SCROLL", ScrollFrame("down", lines), "touch")
            ELSE s1

\* handleTouchMove, for the first finger now at clientY = y.
handleTouchMove(s, y) ==
    IF s.selectMode THEN s
    ELSE IF Abs(y - s.touchStartY) < 10 THEN s
    ELSE IF s.sinceTouch < TOUCH_THROTTLE_MS THEN s
    ELSE LET deltaY == s.touchLastY - y
             elapsed == IF s.sinceTouch = 0 THEN 1 ELSE s.sinceTouch
             s1 == [s EXCEPT !.touchVelocity = Quot(deltaY * 1000000, elapsed),
                             !.sinceTouch = 0,
                             !.touchLastY = y]
             lines == Max(1, Round(Abs(deltaY), PX_PER_LINE))
         IN IF ~IsOpen(s1, s1.wsRef) THEN s1
            ELSE IF deltaY > 0
                 THEN wsSend([s1 EXCEPT !.inScrollMode = TRUE], s1.wsRef, "SCROLL",
                             ScrollFrame("up", lines), "touch")
            ELSE IF deltaY < 0
                 THEN wsSend(s1, s1.wsRef, "SCROLL", ScrollFrame("down", lines), "touch")
            ELSE s1

\* The decay loops that are not running.
FreeLoops(s) == {j \in Loops : s.momentum[j] = NoMomentum}

\* handleTouchEnd: outside select mode, with the socket open and the finger
\* fast enough, a decay loop starts; it captures the socket and the velocity,
\* and momentumRafId names its first frame.
handleTouchEnd(s) ==
    IF s.selectMode THEN s
    ELSE IF ~IsOpen(s, s.wsRef) THEN s
    ELSE IF Abs(s.touchVelocity) < 300000 THEN s
    ELSE LET j == CHOOSE j \in FreeLoops(s) : \A i \in FreeLoops(s) : j <= i
         IN [s EXCEPT !.momentum[j] = [sock |-> s.wsRef, velocity |-> s.touchVelocity],
                      !.momentumRafId = j]

\* velocity *= 0.85, in 1/1000000 px per ms, rounded towards zero.
Decayed(v) == Quot(v * 85, 100)

\* One animation frame of decay() of loop j: the socket captured by
\* handleTouchEnd is used as it is, and momentumRafId names the next frame.
decay(s, j) ==
    LET v == Decayed(s.momentum[j].velocity)
        k == s.momentum[j].sock
        lines == Max(1, Round(Abs(v) * TOUCH_THROTTLE_MS, PX_PER_LINE * 1000000))
    IN IF Abs(v) < 100000
       THEN [s EXCEPT !.momentum[j] = NoMomentum,
                      !.momentumRafId = IF @ = j THEN 0 ELSE @]
       ELSE LET s1 == [s EXCEPT !.momentum[j].velocity = v, !.momentumRafId = j]
            IN IF v > 0
               THEN wsSend([s1 EXCEPT !.inScrollMode = TRUE], k, "SCROLL",
                           ScrollFrame("up", lines), "momentum")
               ELSE wsSend(s1, k, "SCROLL", ScrollFrame("down", lines), "momentum")

\* handleDisableMouse / handleFixBell
handleBanner(s, frame) ==
    IF IsOpen(s, s.wsRef) THEN wsSend(s, s.wsRef, "BANNER", frame, "banner") ELSE s

(* paste and drop *)

IMAGE_TYPES == {"image/png", "image/jpeg", "image/gif", "image/webp", "image/bmp",
                "image/svg+xml"}

\* No file: item.getAsFile() returned null.
NoFile == ""

\* uploadAndInject up to the await of fetch: the socket is captured now.
uploadAndInject(s, file) ==
    [s EXCEPT !.uploads = Append(@, [file |-> file, ws |-> s.wsRef])]

\* The loop of handlePaste over the first n items: <<hasText, imageFile>>.
RECURSIVE PasteScan(_, _)
PasteScan(items, n) ==
    IF n = 0 THEN <<FALSE, NoFile>>
    ELSE LET r == PasteScan(items, n - 1)
             item == items[n]
         IN <<r[1] \/ item.type = "text/plain",
              IF item.kind = "file" /\ item.type \in IMAGE_TYPES THEN item.file ELSE r[2]>>

\* handlePaste uploading whenever there is an image file.
handlePasteIgnoreText(s, items) ==
    LET r == PasteScan(items, Len(items))
    IN IF r[2] # NoFile THEN uploadAndInject(s, r[2]) ELSE s

\* handlePaste, for an event whose clipboardData has `items`.
handlePaste(s, items) ==
    LET r == PasteScan(items, Len(items))
    IN IF r[2] # NoFile /\ ~r[1] THEN uploadAndInject(s, r[2]) ELSE s

\* The loop of handleDrop over the first n files.
RECURSIVE DropScan(_, _, _)
DropScan(s, files, n) ==
    IF n = 0 THEN s
    ELSE LET s1 == DropScan(s, files, n - 1)
         IN IF files[n].type \in IMAGE_TYPES THEN uploadAndInject(s1, files[n].name) ELSE s1

\* handleDrop, for an event whose dataTransfer has `files`.
handleDrop(s, files) == DropScan(s, files, Len(files))

\* The sequence without its i-th element.
Remove(seq, i) == SubSeq(seq, 1, i - 1) \o SubSeq(seq, i + 1, Len(seq))

\* The path the server answers for an uploaded file.
Path(file) == "/uploads/" \o file

\* The path goes to whatever socket is current when the response arrives.
uploadSucceededOnCurrent(s, u) ==
    IF IsOpen(s, s.wsRef) THEN wsSend(s, s.wsRef, "RAW", Path(u.file), "upload") ELSE s

\* The path falls back to the current socket when the captured one is gone.
uploadSucceededFallback(s, u) ==
    IF IsOpen(s, u.ws) THEN wsSend(s, u.ws, "RAW", Path(u.file), "upload")
    ELSE IF IsOpen(s, s.wsRef) THEN wsSend(s, s.wsRef, "RAW", Path(u.file), "upload")
    ELSE s

\* uploadAndInject after res.json(): the path is sent on the captured socket.
uploadSucceeded(s, u) ==
    IF IsOpen(s, u.ws) THEN wsSend(s, u.ws, "RAW", Path(u.file), "upload") ELSE s

\* A failed upload gives up on the uploads still in flight as well.
uploadFailedDropsAll(s, outcome) ==
    [termWrite(s, "[Image upload failed]") EXCEPT !.uploads = << >>]

\* uploadAndInject when the response is not ok, or when fetch threw.
uploadFailed(s, outcome) ==
    IF outcome = "failed" THEN termWrite(s, "[Image upload failed]")
    ELSE termWrite(s, "[Image upload error]")

\* uploadAndInject of the i-th upload in flight after the await: the response
\* is ok with a path, is not ok, or fetch threw.
uploadDone(s, i, outcome) ==
    LET u == s.uploads[i]
        s1 == [s EXCEPT !.uploads = Remove(@, i)]
    IN IF outcome = "ok" THEN uploadSucceeded(s1, u) ELSE uploadFailed(s1, outcome)

PngItem == [kind |-> "file", type |-> "image/png", file |-> "a.png"]

NullPngItem == [kind |-> "file", type |-> "image/png", file |-> NoFile]

PdfItem == [kind |-> "file", type |-> "application/pdf", file |-> "b.pdf"]

TextItem == [kind |-> "string", type |-> "text/plain", file |-> NoFile]

HtmlItem == [kind |-> "string", type |-> "text/html", file |-> NoFile]

\* The clipboardData.items of the paste events considered.
PasteEvents ==
    {<<PngItem>>, <<TextItem>>, <<PngItem, TextItem>>, <<TextItem, PngItem>>,
     <<HtmlItem, PngItem>>, <<PdfItem>>, <<NullPngItem>>, <<PngItem, NullPngItem>>, << >>}

\* The drop events considered: dataTransfer.files, and whether the
\* dataTransfer also carries text/plain data.
DropEvents ==
    {[files |-> <<[type |-> "image/png", name |-> "a.png"]>>, text |-> FALSE],
     [files |-> <<[type |-> "image/png", name |-> "a.png"]>>, text |-> TRUE],
     [files |-> <<[type |-> "application/pdf", name |-> "b.pdf"]>>, text |-> FALSE],
     [files |-> <<[type |-> "image/png", name |-> "a.png"],
                  [type |-> "image/gif", name |-> "c.gif"]>>, text |-> FALSE],
     [files |-> << >>, text |-> TRUE]}

Paste(items) ==
    /\ CanInput
    /\ attached
    /\ Len(uploads) < MaxUploads
    /\ Commit(handlePaste(In, items), "paste")

Drop(e) ==
    /\ CanInput
    /\ attached
    /\ Len(uploads) + Len(e.files) <= MaxUploads
    /\ Commit(handleDrop(In, e.files), IF e.text THEN "drop with text" ELSE "drop")

\* The fetch of the i-th upload in flight settles.
UploadDone(i, outcome) ==
    /\ i \in 1..Len(uploads)
    /\ Commit(uploadDone(Cur, i, outcome), "upload")

\* A click on a banner button: Disable mouse, or Fix bell.
Banner(frame) ==
    /\ CanInput
    /\ attached
    /\ Commit(handleBanner(In, frame), "input")

Async ==
    \/ \E frame \in {"DISABLE_MOUSE:", "FIX_BELL:"} : Banner(frame)
    \/ \E items \in PasteEvents : Paste(items)
    \/ \E e \in DropEvents : Drop(e)
    \/ \E i \in 1..MaxUploads, outcome \in {"ok", "failed", "threw"} : UploadDone(i, outcome)

NextAsync ==
    \/ Lifecycle
    \/ \E k \in Slots : SocketCloseIO(k)
    \/ Async

SpecAsync == Init /\ [][NextAsync]_vars

(* --------------------------- wheel and touch --------------------------- *)

\* At most MaxTouches wheel, touch and select-mode events are handled.
CanTouch == attached /\ inputs < MaxTouches

\* The clientY of the first finger, in px.
Ys == {0, 30, 60}

\* The deltaY of the wheel events considered.
WheelDeltas == {-100, 0, 10}

\* Has o a frame sent by handler `by`?
SentBy(o, by) == \E i \in 1..Len(o) : o[i].by = by

\* The clocks of the history restart when a wheel or touch-move frame goes out.
Stamp(s) ==
    [s EXCEPT !.sinceWheelFrame = IF SentBy(s.out, "wheel") THEN 0 ELSE @,
              !.sinceTouchFrame = IF SentBy(s.out, "touch") THEN 0 ELSE @]

Later(c) == IF c < MaxElapsed THEN c + MaxElapsed ELSE c

\* MaxElapsed ms pass.
Elapse ==
    /\ sinceWheel < MaxElapsed \/ sinceTouch < MaxElapsed
    /\ Commit([Cur EXCEPT !.sinceWheel = Later(@), !.sinceTouch = Later(@),
                          !.sinceWheelFrame = Later(@), !.sinceTouchFrame = Later(@)],
              "elapse")

Wheel(deltaY) ==
    /\ CanTouch
    /\ Commit(Stamp(handleWheel(In, deltaY)), "wheel")

\* A finger goes down; e.touches[0] is at clientY = y.
TouchStart(y) ==
    /\ CanTouch
    /\ fingers < 2
    /\ Commit(handleTouchStart([In EXCEPT !.fingers = @ + 1], y), "touchstart")

TouchMove(y) ==
    /\ CanTouch
    /\ fingers > 0
    /\ Commit(Stamp(handleTouchMove(In, y)), "touchmove")

\* A finger is lifted.
TouchEnd ==
    /\ CanTouch
    /\ fingers > 0
    /\ FreeLoops(Cur) # {}
    /\ Commit(handleTouchEnd([In EXCEPT !.fingers = @ - 1]), "touchend")

\* requestAnimationFrame(decay) of loop j
MomentumFrame(j) ==
    /\ momentum[j] # NoMomentum
    /\ Commit(decay(Cur, j), "momentum")

\* The select-mode button of the toolbar.
ToggleSelect ==
    /\ CanTouch
    /\ Commit([In EXCEPT !.selectMode = ~@], "select")

\* PageUp and PageDown on the focused terminal.
PageKey(key) ==
    /\ CanTouch
    /\ LET r == customKeyEventHandler(In, key)
       IN Commit(IF r.ret THEN onData(r.st, KeyData(key)) ELSE r.st, "key")

Touch ==
    \/ \E deltaY \in WheelDeltas : Wheel(deltaY)
    \/ \E y \in Ys : TouchStart(y)
    \/ \E y \in Ys : TouchMove(y)
    \/ TouchEnd
    \/ \E j \in Loops : MomentumFrame(j)
    \/ ToggleSelect
    \/ \E key \in {"PageUp", "PageDown"} : PageKey(key)
    \/ Elapse

\* The sockets of a page that stays visible and is not tapped to reconnect:
\* they open, close, are replaced by the reconnect timer, and the component
\* unmounts.  The animation frames queued by ws.onopen are not followed, so
\* a socket that has opened keeps its slot.
Sockets ==
    \/ \E k \in Slots : SocketOpen(k)
    \/ \E k \in Slots : ServerClosing(k)
    \/ \E k \in Slots : SocketCloseIO(k)
    \/ TimerFire
    \/ Unmount

NextTouch == Sockets \/ Touch

SpecTouch == Init /\ [][NextTouch]_vars

(* --------------------------- the text input ---------------------------- *)

\* text.slice(n)
Slice(text, n) == SubSeq(text, n + 1, Len(text))

Chars == {"a", "b"}

\* The values of the text input field.
Texts == UNION {[1..n -> Chars] : n \in 0..MaxText}

\* The string of a sequence of characters.
RECURSIVE Str(_)
Str(text) == IF text = << >> THEN "" ELSE Head(text) \o Str(Tail(text))

\* for (let i = 0; i < deleted; i++) sendToWs('\x7f')
RECURSIVE Backspaces(_, _)
Backspaces(s, deleted) ==
    IF deleted = 0 THEN s ELSE sendToWs(Backspaces(s, deleted - 1), "DEL")

\* onInput of the text field, whose value is now newVal.
onInput(s, newVal) ==
    IF s.composing THEN s
    ELSE LET oldVal == s.prevInput
             s1 == [s EXCEPT !.prevInput = newVal]
         IN IF Len(newVal) > Len(oldVal) THEN sendToWs(s1, Str(Slice(newVal, Len(oldVal))))
            ELSE IF Len(newVal) < Len(oldVal) THEN Backspaces(s1, Len(oldVal) - Len(newVal))
            ELSE s1

\* onCompositionEnd of the text field, whose value is `value`.
onCompositionEnd(s, value) ==
    LET composed == Slice(value, Len(s.prevInput))
        s1 == [s EXCEPT !.composing = FALSE, !.prevInput = value]
    IN IF composed # << >> THEN sendToWs(s1, Str(composed)) ELSE s1

\* onKeyDown of the text field, for Enter.
onTextEnter(s) ==
    [sendToWs(s, "CR") EXCEPT !.inputValue = << >>, !.prevInput = << >>]

\* The text-input button of the toolbar: the field is unmounted when hidden,
\* and a new, empty field is mounted when shown again.
ToggleTextInput ==
    /\ attached
    /\ Commit([Cur EXCEPT !.showTextInput = ~@, !.inputValue = << >>], "toggle text")

\* compositionstart: an input method, autocomplete or slide typing begins.
CompositionStart ==
    /\ attached
    /\ showTextInput
    /\ ~composing
    /\ Commit([Cur EXCEPT !.composing = TRUE], "compositionstart")

\* An input event: the field's value has become newVal.  The value differs
\* from what it was, except in the input event that follows a compositionend.
InputEvent(newVal) ==
    /\ attached
    /\ showTextInput
    /\ newVal # inputValue \/ ev = "compositionend"
    /\ Commit(onInput([Cur EXCEPT !.inputValue = newVal], newVal), "input event")

\* compositionend
CompositionEnd ==
    /\ attached
    /\ showTextInput
    /\ composing
    /\ Commit(onCompositionEnd(Cur, inputValue), "compositionend")

\* Enter in the text field.
TextEnter ==
    /\ attached
    /\ showTextInput
    /\ ~composing
    /\ Commit(onTextEnter(Cur), "enter")

TextInput ==
    \/ ToggleTextInput
    \/ CompositionStart
    \/ \E newVal \in Texts : InputEvent(newVal)
    \/ CompositionEnd
    \/ TextEnter

NextText == Sockets \/ TextInput

SpecText == Init /\ [][NextText]_vars

(* --------------------------- inbound frames ---------------------------- *)

\* term.write(data) of a frame's content, piece by piece.
termWriteData(s, data) == [s EXCEPT !.written = @ \o data]

\* A text is the sequence of its pieces; no piece is a prefix of another, so
\* text.startsWith(prefix) is a comparison of leading pieces.
StartsWith(text, prefix) ==
    /\ Len(text) >= Len(prefix)
    /\ SubSeq(text, 1, Len(prefix)) = prefix

MOUSE_PREFIX == <<"MOUSE_WARNING:">>
BELL_PREFIX == <<"BELL_WARNING:">>
WINDOW_PREFIX == <<"WINDOW_STATE:">>

\* The BellWarning objects the server sends.
BellAction == [isNull |-> FALSE, bellAction |-> TRUE, visualBell |-> FALSE]
VisualBell == [isNull |-> FALSE, bellAction |-> FALSE, visualBell |-> TRUE]

\* JSON.parse(payload): the value, or a SyntaxError thrown.
JSONParse(payload) ==
    IF payload = <<"{\"bellAction\":true}">> THEN [ok |-> TRUE, value |-> BellAction]
    ELSE IF payload = <<"{\"visualBell\":true}">> THEN [ok |-> TRUE, value |-> VisualBell]
    ELSE IF payload = <<"null">> THEN [ok |-> TRUE, value |-> Null]
    ELSE [ok |-> FALSE, value |-> Null]

\* The banner goes up for every MOUSE_WARNING: frame whose payload begins
\* with on, whatever follows.
onMouseWarningFrameAnyOn(s, text) ==
    [s EXCEPT !.mouseWarning = (Len(text) >= 2 /\ text[2] = "on")]

\* onMouseWarning(text === 'MOUSE_WARNING:on')
onMouseWarningFrame(s, text) ==
    [s EXCEPT !.mouseWarning = (text = <<"MOUSE_WARNING:", "on">>)]

\* A malformed payload is reported on the terminal and clears the warning.
onBellWarningFrameReport(s, payload) ==
    IF payload = <<"ok">> THEN [s EXCEPT !.bellWarning = Null]
    ELSE LET parsed == JSONParse(payload)
         IN IF parsed.ok THEN [s EXCEPT !.bellWarning = parsed.value]
            ELSE termWrite([s EXCEPT !.bellWarning = Null], "[bad BELL_WARNING]")

\* The BELL_WARNING: branch, given the payload after the prefix.
onBellWarningFrame(s, payload) ==
    IF payload = <<"ok">> THEN [s EXCEPT !.bellWarning = Null]
    ELSE LET parsed == JSONParse(payload)
         IN IF parsed.ok THEN [s EXCEPT !.bellWarning = parsed.value]
            ELSE s

\* WINDOW_STATE: frames fall through to term.write like untagged text.
onmessageNoWindowState(s, m) ==
    IF m.binary THEN termWriteData(s, m.data)
    ELSE IF StartsWith(m.data, MOUSE_PREFIX) THEN onMouseWarningFrame(s, m.data)
    ELSE IF StartsWith(m.data, BELL_PREFIX)
         THEN onBellWarningFrame(s, Slice(m.data, Len(BELL_PREFIX)))
    ELSE termWriteData(s, m.data)

\* ws.onmessage
onmessage(s, m) ==
    IF m.binary THEN termWriteData(s, m.data)
    ELSE IF StartsWith(m.data, MOUSE_PREFIX) THEN onMouseWarningFrame(s, m.data)
    ELSE IF StartsWith(m.data, BELL_PREFIX)
         THEN onBellWarningFrame(s, Slice(m.data, Len(BELL_PREFIX)))
    ELSE IF StartsWith(m.data, WINDOW_PREFIX) THEN s
    ELSE termWriteData(s, m.data)

\* The text frames a server, or a program printing to the pane, produces.
TextFrames ==
    { <<"MOUSE_WARNING:", "on">>, <<"MOUSE_WARNING:", "off">>,
      <<"MOUSE_WARNING:">>, <<"MOUSE_WARNING:", "on", " ">>,
      <<"BELL_WARNING:", "ok">>, <<"BELL_WARNING:", "{\"bellAction\":true}">>,
      <<"BELL_WARNING:", "{\"visualBell\":true}">>, <<"BELL_WARNING:", "null">>,
      <<"BELL_WARNING:", "{garbage">>, <<"BELL_WARNING:">>,
      <<"BELL_WARNING:", "ok", " ">>, <<"BELL_WARNING:", "MOUSE_WARNING:", "on">>,
      <<"WINDOW_STATE:", "{\"active\":1}">>, <<"WINDOW_STATE:">>,
      <<"hello">>, << >>, <<" ", "MOUSE_WARNING:", "on">>,
      <<"MOUSE_WARNING">>, <<"on">> }

InboundFrames ==
    {[binary |-> FALSE, data |-> d] : d \in TextFrames}
        \cup {[binary |-> TRUE, data |-> d] : d \in {<<"bytes">>, <<"MOUSE_WARNING:", "on">>}}

\* ws.onmessage of socket k: the transport delivers a frame, which it does
\* only while the socket is OPEN.
Message(k, m) ==
    /\ socks[k].readyState = "OPEN"
    /\ Commit(onmessage([Cur EXCEPT !.received = <<m>>], m), "message")

\* The dismiss button of the mouse banner: setMouseWarning(false).
DismissMouseWarning ==
    /\ attached
    /\ mouseWarning
    /\ Commit([Cur EXCEPT !.mouseWarning = FALSE], "dismiss")

\* The dismiss button of the bell banner: setBellWarning(null).
DismissBellWarning ==
    /\ attached
    /\ bellWarning # Null
    /\ Commit([Cur EXCEPT !.bellWarning = Null], "dismiss")

Inbound ==
    \/ \E k \in Slots, m \in InboundFrames : Message(k, m)
    \/ DismissMouseWarning
    \/ DismissBellWarning

NextMsg ==
    \/ Lifecycle
    \/ \E k \in Slots : SocketCloseIO(k)
    \/ Inbound

SpecMsg == Init /\ [][NextMsg]_vars

(* ------------------------------ the fit -------------------------------- *)

\* Raw output of the pane.
Bytes == [binary |-> TRUE, data |-> <<"bytes">>]

\* Layout changes, fits and their retries, with a key typed and output
\* arriving in between.
Fitting ==
    \/ \E d \in DimsSet \cup {NoDims} : LayoutChange(d)
    \/ Refit
    \/ FitRetry
    \/ MountRaf
    \/ KeyDown("a")
    \/ \E k \in Slots : Message(k, Bytes)

NextFit == Sockets \/ Fitting

\* A retry queued with requestAnimationFrame does run.
SpecFit == Init /\ [][NextFit]_vars /\ WF_vars(FitRetry)

(* ------------------------- sortSessionsByOrder ------------------------- *)

\* Session ids.
Ids == {"a", "b", "c"}

\* All sequences over S of length at most n.
RECURSIVE Seqs(_, _)
Seqs(S, n) ==
    IF n = 0 THEN {<< >>}
    ELSE LET shorter == Seqs(S, n - 1)
         IN shorter \cup {Append(q, x) : q \in {r \in shorter : Len(r) = n - 1}, x \in S}

\* Arrays of sessions: every session has its own id.
SessionLists ==
    {[i \in 1..Len(q) |-> [id |-> q[i]]] :
        q \in {r \in Seqs(Ids, MaxSessions) : \A i, j \in 1..Len(r) : i # j => r[i] # r[j]}}

\* Order arrays; an id may be named more than once.
Orders == Seqs(Ids, MaxOrder)

\* orderMap.has(id)
orderMapHas(o, id) == \E p \in 1..Len(o) : o[p] = id

\* orderMap.get(id): new Map(order.map((id, idx) => [id, idx])) keeps the
\* last index of an id.
orderMapGet(o, id) ==
    (CHOOSE p \in 1..Len(o) : o[p] = id /\ \A q \in p + 1..Len(o) : o[q] # id) - 1

\* The comparator: an id that is not in the map counts as Infinity.
compare(o, a, b) ==
    IF ~orderMapHas(o, a.id) /\ ~orderMapHas(o, b.id) THEN 0
    ELSE IF ~orderMapHas(o, a.id) THEN 1
    ELSE IF ~orderMapHas(o, b.id) THEN -1
    ELSE orderMapGet(o, a.id) - orderMapGet(o, b.id)

\* x put into the sorted array after every element that does not come after it.
Insert(o, arr, x) ==
    LET after == {i \in 1..Len(arr) : compare(o, arr[i], x) > 0}
        n == IF after = {} THEN Len(arr)
             ELSE (CHOOSE i \in after : \A j \in after : i <= j) - 1
    IN SubSeq(arr, 1, n) \o <<x>> \o SubSeq(arr, n + 1, Len(arr))

\* Array.prototype.sort with the comparator: a stable sort.
RECURSIVE sort(_, _)
sort(o, arr) ==
    IF arr = << >> THEN << >>
    ELSE Insert(o, sort(o, SubSeq(arr, 1, Len(arr) - 1)), arr[Len(arr)])

\* sortSessionsByOrder sorting the array it was given in place.
sortSessionsInPlace(ss, o) ==
    IF Len(o) = 0 THEN [input |-> ss, ret |-> ss, same |-> TRUE]
    ELSE [input |-> sort(o, ss), ret |-> sort(o, ss), same |-> TRUE]

\* sortSessionsByOrder(sessions, order): the array given as it is after the
\* call, the array returned, and whether they are the same array.
sortSessionsByOrder(ss, o) ==
    IF Len(o) = 0 THEN [input |-> ss, ret |-> ss, same |-> TRUE]
    ELSE [input |-> ss, ret |-> sort(o, ss), same |-> FALSE]

\* The call.
SortCall ==
    /\ ~sorted.called
    /\ LET r == sortSessionsByOrder(sessions, order)
       IN /\ sessions' = r.input
          /\ sorted' = [called |-> TRUE, ret |-> r.ret, same |-> r.same]
    /\ UNCHANGED <<termVars, order>>

InitSort ==
    /\ Mounted
    /\ sessions \in SessionLists
    /\ order \in Orders
    /\ sorted = NotCalled

NextSort == SortCall

SpecSort == InitSort /\ [][NextSort]_vars

(* ------------------------------- claims -------------------------------- *)

\* Socket k is live: connecting or open, with its close handler attached.
Live(k) == socks[k].readyState \in {"CONNECTING", "OPEN"} /\ socks[k].onclose

\* The step creates a WebSocket.
NewSocket == \E k \in Slots : socks'[k].readyState = "CONNECTING" /\ socks[k].readyState # "CONNECTING"

\* The manager is Exhausted.
Exhausted == tapToReconnectActive /\ ~disposed

\* C1 as stated: once RECONNECT_MAX_ATTEMPTS (15) consecutive failures have
\* happened no reconnect timer is pending and tap-to-reconnect is armed, and
\* an Exhausted manager stays Exhausted, with no timer and no new socket,
\* in every step that is not the click handler (or disposal).
C1_ExhaustedAfterMaxAttemptsFailures ==
    /\ [](~disposed /\ failures >= RECONNECT_MAX_ATTEMPTS
            => reconnectTimer = NoTimer /\ tapToReconnectActive)
    /\ [][Exhausted /\ ev' \notin {"tap", "unmount"}
            => tapToReconnectActive' /\ reconnectTimer' = NoTimer /\ ~NewSocket]_vars

\* C1 amended: the manager becomes Exhausted when a connection attempt
\* fails after all 15 retries have been scheduled, which is the 16th
\* consecutive failed attempt when the connection never opened (the 15th
\* failure still schedules the 15th retry).  While Exhausted no timer is
\* pending and no socket is live, and the manager stays so in every step
\* other than a tap, the page becoming visible, or disposal.
C1_ExhaustedAfterRetriesUsedUp ==
    /\ [](~disposed /\ failures >= RECONNECT_MAX_ATTEMPTS + 1 => tapToReconnectActive)
    /\ [](Exhausted => /\ reconnectAttempt = RECONNECT_MAX_ATTEMPTS
                       /\ failures >= RECONNECT_MAX_ATTEMPTS
                       /\ reconnectTimer = NoTimer
                       /\ wsRef = NoSock
                       /\ \A k \in Slots : ~Live(k))
    /\ [][Exhausted /\ ev' \notin {"tap", "visible", "unmount"}
            => tapToReconnectActive' /\ reconnectTimer' = NoTimer /\ ~NewSocket]_vars

C1_Witness ==
    /\ failures = RECONNECT_MAX_ATTEMPTS + 1
    /\ reconnectAttempt = RECONNECT_MAX_ATTEMPTS
    /\ Exhausted
    /\ ev = "close"

\* C2 as stated: a step that takes an Exhausted manager to a new connection
\* attempt is the click handler, and it leaves the attempt counter at 0.
C2_OnlyTapLeavesExhausted ==
    [][Exhausted /\ NewSocket => ev' = "tap" /\ reconnectAttempt' = 0]_vars

\* C2 amended: a step that takes an Exhausted manager to a new connection
\* attempt is the click handler or the visibility handler (page became
\* visible), and it leaves the attempt counter at 0; timer and socket events
\* never do.
C2_OnlyTapOrVisibleLeavesExhausted ==
    [][Exhausted /\ NewSocket => ev' \in {"tap", "visible"} /\ reconnectAttempt' = 0]_vars

C2_Witness ==
    /\ ev = "tap"
    /\ reconnectAttempt = 0
    /\ ~tapToReconnectActive
    /\ currentClose # NoSock
    /\ socks[currentClose].readyState = "CONNECTING"

\* C4: at most one socket is live at any time.
C4_AtMostOneLiveSocket == Cardinality({k \in Slots : Live(k)}) <= 1

C4_Witness ==
    \E k, j \in Slots :
        /\ Live(k)
        /\ k = currentClose
        /\ socks[j].readyState = "CLOSING"
        /\ ~socks[j].onclose

\* C10: when the page becomes visible and the manager is not disposed, a
\* reconnect is forced exactly if the current socket is absent, CLOSING or
\* CLOSED, or the page was hidden for more than 2000 ms.  The forced
\* reconnect leaves no timer pending, the attempt counter at 0, tap-to-
\* reconnect cleared and a new socket connecting; otherwise socket, timer
\* and counters are unchanged.
C10_VisibleForcesReconnectIff ==
    [][(ev' = "visible" /\ ~disposed) =>
         IF \/ wsRef = NoSock
            \/ socks[wsRef].readyState \in {"CLOSING", "CLOSED"}
            \/ (hiddenAt > 0 /\ sinceHidden > 2000)
         THEN /\ reconnectTimer' = NoTimer
              /\ reconnectAttempt' = 0
              /\ ~tapToReconnectActive'
              /\ NewSocket
              /\ wsRef' = NoSock
              /\ currentClose' # NoSock
              /\ socks'[currentClose'].readyState = "CONNECTING"
              /\ \A k \in Slots \ {currentClose'} : socks'[k].readyState \notin {"CONNECTING", "OPEN"}
         ELSE UNCHANGED <<socks, reconnectTimer, reconnectAttempt, tapToReconnectActive,
                          wsRef, currentClose, hasConnectedOnce>>]_vars

\* A stale open socket was replaced after the page was hidden for 3000 ms.
C10_Witness ==
    /\ ev = "visible"
    /\ sinceHidden > 2000
    /\ reconnectAttempt = 0
    /\ wsRef = NoSock
    /\ socks[currentClose].readyState = "CONNECTING"
    /\ \E j \in Slots : socks[j].readyState = "CLOSING" /\ socks[j].raf > 0

\* Frames of `o` as plain strings.
Frames(o) == [i \in 1..Len(o) |-> o[i].frame]

ExitSent(o) == \E i \in 1..Len(o) : o[i].frame = "SCROLL:exit"

\* C3 as stated: a RESIZE frame that does not come from a forced call (it
\* comes from sendResize() or from the onResize handler) never repeats the
\* (cols, rows) of the RESIZE frame before it on the same socket.
C3_NoUnforcedDuplicateResize ==
    \A i \in 1..Len(out) :
        (out[i].kind = "RESIZE" /\ out[i].by \in {"sendResize", "onResize"})
            => out[i].frame # LastResize(SubSeq(out, 1, i - 1), out[i].sock, prevResize[out[i].sock])

C6_WindowSwitchSendsSelectThenResize ==
    [][(windowIndex' # windowIndex /\ wsRef # NoSock /\ socks[wsRef].readyState = "OPEN") =>
          /\ Len(out') = 2
          /\ out'[1].frame = "SELECT_WINDOW:" \o ToString(windowIndex')
          /\ out'[2].kind = "RESIZE"
          /\ out'[2].by = "sendResize(true)"
          /\ out'[1].sock = wsRef /\ out'[2].sock = wsRef
          /\ UNCHANGED <<socks, wsRef, currentClose>>]_vars

\* C6 amended: a window switch on an open socket sends SELECT_WINDOW:n and
\* then, when the fit addon proposes dimensions, one forced RESIZE with
\* those dimensions (no RESIZE when it proposes none), on that socket, and
\* leaves the sockets alone.
C6_WindowSwitchSendsSelectThenResizeIfDims ==
    [][(windowIndex' # windowIndex /\ wsRef # NoSock /\ socks[wsRef].readyState = "OPEN") =>
          /\ out'[1].frame = "SELECT_WINDOW:" \o ToString(windowIndex')
          /\ out'[1].sock = wsRef
          /\ IF proposed = NoDims
             THEN Len(out') = 1
             ELSE /\ Len(out') = 2
                  /\ out'[2].frame = "RESIZE:" \o ToString(proposed[1]) \o ":" \o ToString(proposed[2])
                  /\ out'[2].by = "sendResize(true)"
                  /\ out'[2].sock = wsRef
          /\ UNCHANGED <<socks, wsRef, currentClose>>]_vars

\* The forced RESIZE repeats the dimensions last sent on the socket.
C6_Witness ==
    /\ Len(out) = 2
    /\ out[1].kind = "SELECT_WINDOW"
    /\ out[2].by = "sendResize(true)"
    /\ out[2].frame = prevResize[out[2].sock]
    /\ socks[wsRef].readyState = "OPEN"

\* C7 as stated, for typed keys: a typed key pressed while the scroll-mode
\* flag is set clears the flag and has SCROLL:exit sent, whether or not the
\* socket is open.
C7_TypedKeyExitsScrollMode ==
    [][(inScrollMode /\ attached /\ \E key \in {"a", "CopyNoSelection"} : KeyDown(key))
          => ~inScrollMode' /\ ExitSent(out')]_vars

\* C8: while the scroll-mode flag is set, an Up or Down arrow (hardware key
\* or toolbar button) sends SCROLL:up:1 or SCROLL:down:1 on the open socket
\* and nothing else, never the raw escape sequence, and the flag stays set.
C8_ArrowsScrollInScrollMode ==
    [][\A dir \in {"up", "down"} :
          (/\ inScrollMode
           /\ attached
           /\ \/ KeyDown(IF dir = "up" THEN "ArrowUp" ELSE "ArrowDown")
              \/ VirtualKey(IF dir = "up" THEN <<"ESC[A", "up">> ELSE <<"ESC[B", "down">>))
          => /\ inScrollMode'
             /\ \A i \in 1..Len(out') : out'[i].kind # "RAW"
             /\ Frames(out') = IF wsRef # NoSock /\ socks[wsRef].readyState = "OPEN"
                               THEN <<"SCROLL:" \o dir \o ":1">>
                               ELSE << >>]_vars

C8_Witness ==
    /\ inScrollMode
    /\ Len(out) = 1
    /\ out[1].frame = "SCROLL:down:1"
    /\ out[1].by = "key"

\* C9 as stated, on an open socket: a key the custom key handler intercepts
\* (Shift+Enter, PageDown, the copy and paste chords) or a non-directional
\* toolbar key, pressed while the scroll-mode flag is set, clears the flag
\* and sends SCROLL:exit.
C9_InterceptedKeyExitsScrollMode ==
    [][(/\ inScrollMode
        /\ attached
        /\ wsRef # NoSock /\ socks[wsRef].readyState = "OPEN"
        /\ \/ \E key \in {"Shift+Enter", "PageDown", "Copy", "Paste"} : KeyDown(key)
           \/ \E v \in {<<"ESC", "">>, <<"ESC[D", "">>} : VirtualKey(v))
          => ~inScrollMode' /\ ExitSent(out')]_vars

\* Some frame of `o` is the RESIZE of dimensions d on socket k.
HasResize(o, k, d) ==
    \E i \in 1..Len(o) : o[i].sock = k /\ o[i].kind = "RESIZE" /\ o[i].frame = ResizeFrame(d)

\* C11 as stated: with the socket open and dimensions to propose, a RESIZE
\* is sent, whatever was sent last, when the announcement deferred by
\* ws.onopen runs (first connection and reconnect), when the window index
\* changes, and when the frames of the visible effect run after the
\* terminal became visible again.
C11_ResizeForcedAtTheFourEvents ==
    [][/\ \A k \in Slots :
            (RafTick(k) /\ socks[k].raf = 1 /\ socks[k].readyState = "OPEN" /\ proposed # NoDims)
                => HasResize(out', k, proposed)
       /\ ((\E n \in 0..MaxWindow : WindowSwitch(n)) /\ IsOpen(Cur, wsRef) /\ proposed # NoDims)
                => HasResize(out', wsRef, proposed)
       /\ (RestoreRaf /\ visRaf = 1 /\ IsOpen(Cur, wsRef) /\ proposed # NoDims)
                => HasResize(out', wsRef, proposed)]_vars

\* C12: the step that schedules the reconnect timer at attempt count a (in
\* 0..14) gives it the delay min(500 * 1.5^a, 10000) ms, written exactly as
\* the fraction 4 * num / 2^a with num = min(125 * 3^a, 2500 * 2^a); the
\* delay is at most 10000 ms and at least the delay of every earlier
\* attempt count; counts 0, 1, 2 give 500, 750, 1125 ms; and the attempt
\* counter goes up by exactly 1.
C12_BackoffDelay ==
    [][(reconnectTimer = NoTimer /\ reconnectTimer' # NoTimer) =>
          LET a == reconnectAttempt
              num == reconnectTimer'[1]
              den == reconnectTimer'[2]
          IN /\ a \in 0..(RECONNECT_MAX_ATTEMPTS - 1)
             /\ reconnectAttempt' = a + 1
             /\ den = Pow(2, a)
             /\ num = Min(125 * Pow(3, a), 2500 * den)
             /\ num <= 2500 * den
             /\ \A b \in 0..a : ReconnectDelay(b)[1] * Pow(2, a - b) <= num
             /\ (a = 0 => 4 * num = 500 * den)
             /\ (a = 1 => 4 * num = 750 * den)
             /\ (a = 2 => 4 * num = 1125 * den)]_vars

\* The 15th retry is scheduled with the capped delay of 10000 ms.
C12_Witness ==
    /\ reconnectAttempt = RECONNECT_MAX_ATTEMPTS
    /\ reconnectTimer # NoTimer
    /\ reconnectTimer[1] = 2500 * reconnectTimer[2]
    /\ ev = "close"

\* C13: every socket open on a manager that is not disposed leaves the
\* attempt counter at 0 and tap-to-reconnect cleared, and it clears the
\* display and writes the reconnection announcement exactly if a socket of
\* this manager had opened before (nothing is written on the first open).
C13_OpenResetsAndAnnouncesReconnect ==
    [][\A k \in Slots :
          (SocketOpen(k) /\ ~disposed) =>
              /\ reconnectAttempt' = 0
              /\ ~tapToReconnectActive'
              /\ wsRef' = k
              /\ written' = IF everOpened THEN <<"clear", "[Reconnected]">> ELSE << >>]_vars

\* A reconnection: the socket opened after an earlier one had opened.
C13_Witness ==
    /\ ev = "open"
    /\ written = <<"clear", "[Reconnected]">>
    /\ reconnectAttempt = 0
    /\ wsRef # NoSock

\* Socket k is with the manager: not closed yet, close handler attached.
Pending(k) == socks[k].readyState \in {"CONNECTING", "OPEN", "CLOSING"} /\ socks[k].onclose

\* The manager has no socket left after an unexpected close.
Disconnected == ~disposed /\ \A k \in Slots : ~Pending(k)

\* A connection attempt is under way, or the manager is Exhausted or disposed.
Recovered == disposed \/ tapToReconnectActive \/ \E k \in Slots : Live(k)

C15_SendsOnlyOnOpenSocket == \A i \in 1..Len(out) : out[i].rs = "OPEN"

HasPlainText(items) == \E i \in 1..Len(items) : items[i].type = "text/plain"

HasImageItem(items) ==
    \E i \in 1..Len(items) : items[i].kind = "file" /\ items[i].type \in IMAGE_TYPES

\* C19: a paste event with a text/plain item starts no upload, and a paste
\* event that starts an upload (exactly one) has an image item of a
\* supported type and no text/plain item.
C19_PasteUploadsOnlyImageWithoutText ==
    [][\A items \in PasteEvents :
          Paste(items) =>
              /\ (HasPlainText(items) => uploads' = uploads)
              /\ (uploads' # uploads =>
                      /\ HasImageItem(items)
                      /\ ~HasPlainText(items)
                      /\ Len(uploads') = Len(uploads) + 1)]_vars

\* A pasted image is being uploaded.
C19_Witness ==
    /\ ev = "paste"
    /\ uploads # << >>
    /\ uploads[Len(uploads)].file = "a.png"

\* C20 as stated: a drop event that carries plain text starts no upload,
\* and a drop event that starts uploads has an image file and no plain
\* text.
C20_DropUploadsOnlyImageWithoutText ==
    [][\A e \in DropEvents :
          Drop(e) =>
              /\ (e.text => uploads' = uploads)
              /\ (uploads' # uploads =>
                      /\ \E i \in 1..Len(e.files) : e.files[i].type \in IMAGE_TYPES
                      /\ ~e.text)]_vars


\* The payload of a BELL_WARNING: frame, whatever follows the prefix.
BellPayload(m) == Slice(m.data, Len(BELL_PREFIX))

IsBellFrame(m) == ~m.binary /\ StartsWith(m.data, BELL_PREFIX)

IsMouseFrame(m) == ~m.binary /\ StartsWith(m.data, MOUSE_PREFIX)

IsWindowFrame(m) == ~m.binary /\ StartsWith(m.data, WINDOW_PREFIX)

\* C16: a BELL_WARNING:ok frame always sets the bell warning to none; a
\* BELL_WARNING: frame whose payload is not "ok" and fails to parse leaves the
\* bell warning and the mouse-mode flag exactly as they were and writes
\* nothing to the terminal.
C16_BellOkClearsMalformedIgnored ==
    [][\A k \in Slots, m \in InboundFrames :
          (Message(k, m) /\ IsBellFrame(m)) =>
              /\ m.data = <<"BELL_WARNING:", "ok">> => bellWarning' = Null
              /\ (BellPayload(m) # <<"ok">> /\ ~JSONParse(BellPayload(m)).ok) =>
                    /\ bellWarning' = bellWarning
                    /\ mouseWarning' = mouseWarning
                    /\ written' = << >>]_vars

\* A malformed BELL_WARNING: frame has arrived while both banners were up,
\* and both are still up.
C16_Witness ==
    /\ received = <<[binary |-> FALSE, data |-> <<"BELL_WARNING:", "{garbage">>]>>
    /\ bellWarning = VisualBell
    /\ mouseWarning
    /\ written = << >>

\* Everything but the record of the last step.
ProgramState ==
    <<reconnectAttempt, reconnectTimer, timers, wsUrl, disposed, hasConnectedOnce,
      tapToReconnectActive, currentClose, wsRef, socks, visibilityState,
      hiddenAt, sinceHidden, attached, inScrollMode, lastSentDims, termDims,
      proposed, windowIndex, fitPending, clipPending, visible, visRaf,
      mountRaf, touchVelocity, momentum, momentumRafId, selectMode, fingers,
      touchStartY, touchLastY, sinceWheel, sinceTouch, showTextInput, inputValue,
      prevInput, composing, uploads, mouseWarning, bellWarning>>

\* C17: a binary frame is written to the terminal; a text frame starting with
\* MOUSE_WARNING:, BELL_WARNING: or WINDOW_STATE: is never written to the
\* terminal, and a WINDOW_STATE: frame changes no state at all; every other
\* text frame is written to the terminal as literal text.
C17_InboundDemultiplexing ==
    [][\A k \in Slots, m \in InboundFrames :
          Message(k, m) =>
              /\ m.binary => written' = m.data
              /\ (IsMouseFrame(m) \/ IsBellFrame(m) \/ IsWindowFrame(m)) => written' = << >>
              /\ IsWindowFrame(m) => (ProgramState' = ProgramState /\ out' = << >>)
              /\ (~m.binary /\ ~IsMouseFrame(m) /\ ~IsBellFrame(m) /\ ~IsWindowFrame(m))
                    => written' = m.data]_vars

\* A WINDOW_STATE: frame has arrived while a banner was up, and nothing was
\* written.
C17_Witness ==
    /\ received = <<[binary |-> FALSE, data |-> <<"WINDOW_STATE:", "{\"active\":1}">>]>>
    /\ written = << >>
    /\ mouseWarning
    /\ bellWarning # Null

\* C18: a MOUSE_WARNING: frame sets the mouse-mode flag to true exactly when
\* the frame is MOUSE_WARNING:on, and leaves the bell warning unchanged; a
\* BELL_WARNING: frame never changes the mouse-mode flag.
C18_WarningsToggledIndependently ==
    [][\A k \in Slots, m \in InboundFrames :
          Message(k, m) =>
              /\ IsMouseFrame(m) =>
                    /\ mouseWarning' = (m.data = <<"MOUSE_WARNING:", "on">>)
                    /\ bellWarning' = bellWarning
              /\ IsBellFrame(m) => mouseWarning' = mouseWarning]_vars

\* MOUSE_WARNING:off has arrived while the bell banner was up.
C18_Witness ==
    /\ received = <<[binary |-> FALSE, data |-> <<"MOUSE_WARNING:", "off">>]>>
    /\ ~mouseWarning
    /\ bellWarning = BellAction

C22_UploadFailureOnlyWrites ==
    [][\A i \in 1..MaxUploads, outcome \in {"failed", "threw"} :
          UploadDone(i, outcome) =>
             /\ Len(written') = 1
             /\ out' = << >>
             /\ \A k \in Slots :
                   socks'[k] = socks[k] \/ (socks[k].readyState = "CLOSED" /\ socks'[k] = Fresh)
             /\ wsRef' = wsRef
             /\ currentClose' = currentClose
             /\ reconnectAttempt' = reconnectAttempt
             /\ reconnectTimer' = reconnectTimer
             /\ tapToReconnectActive' = tapToReconnectActive
             /\ uploads' = Remove(uploads, i)]_vars

\* An upload has failed while the socket is open and another upload is
\* still in flight.
C22_Witness ==
    /\ ev = "upload"
    /\ written = <<"[Image upload failed]">>
    /\ Len(uploads) = 1
    /\ wsRef # NoSock
    /\ socks[wsRef].readyState = "OPEN"

\* The frames of o sent by ws.onopen's deferred callback on socket k.
RECURSIVE Deferred(_, _)
Deferred(o, k) ==
    IF o = << >> THEN 0
    ELSE Deferred(Tail(o), k) + (IF Head(o).by = "onopen" /\ Head(o).sock = k THEN 1 ELSE 0)

\* C23: the RESIZE deferred by ws.onopen is sent only by the second of two
\* animation frames queued when the socket opened (and by nothing else),
\* only if that socket is OPEN then and proposeDimensions() gives dimensions,
\* with those dimensions; at most one is sent per socket, and none if the
\* socket is no longer OPEN at the second frame.
C23_DeferredResizeAfterTwoFrames ==
    [][\A k \in Slots :
          /\ Deferred(out', k) <= 1
          /\ Deferred(out', k) = 1 =>
                /\ socks[k].raf = 1
                /\ socks'[k].raf = 0
                /\ socks[k].readyState = "OPEN"
                /\ proposed # NoDims
                /\ out' = <<[sock |-> k, kind |-> "RESIZE", frame |-> ResizeFrame(proposed),
                             by |-> "onopen", rs |-> "OPEN"]>>
          /\ (socks[k].raf = 1 /\ socks'[k].raf # 1) =>
                /\ socks'[k].raf = 0
                /\ (socks[k].readyState = "OPEN" /\ proposed # NoDims) <=> Deferred(out', k) = 1
          /\ (socks[k].raf # 1 /\ socks'[k].raf = 1) => (socks[k].raf = 2 /\ out' = << >>)
          /\ (socks[k].raf # 2 /\ socks'[k].raf = 2) =>
                (socks[k].readyState = "CONNECTING" /\ socks'[k].readyState = "OPEN")]_vars

\* The second animation frame has announced the dimensions measured after a
\* layout change.
C23_Witness ==
    /\ ev = "raf"
    /\ Len(out) = 1
    /\ out[1].by = "onopen"
    /\ out[1].frame = ResizeFrame(Dim(2))

\* The SCROLL frames of either direction.
UpFrames == {ScrollFrame("up", n) : n \in 1..60}

DownFrames == {ScrollFrame("down", n) : n \in 1..60}

\* A step of a downward gesture: PageDown, a wheel event with deltaY >= 0, a
\* touch move or a momentum frame with a negative deltaY or velocity.
DownGesture ==
    \/ PageKey("PageDown")
    \/ \E deltaY \in WheelDeltas : deltaY >= 0 /\ Wheel(deltaY)
    \/ \E y \in Ys : touchLastY - y < 0 /\ TouchMove(y)
    \/ \E j \in Loops : /\ momentum[j] # NoMomentum
                        /\ momentum[j].velocity < 0
                        /\ MomentumFrame(j)

\* C24: a downward gesture sends only SCROLL:down frames and leaves the
\* scroll-mode flag unchanged; the flag is set only by a step in which a
\* SCROLL:up frame is actually sent, that is, handed to an OPEN socket.
C24_ScrollModeOnlyWithScrollUpSent ==
    [][/\ DownGesture =>
             /\ inScrollMode' = inScrollMode
             /\ \A i \in 1..Len(out') : out'[i].frame \in DownFrames
       /\ (~inScrollMode /\ inScrollMode') =>
             \E i \in 1..Len(out') : out'[i].frame \in UpFrames /\ out'[i].rs = "OPEN"]_vars

\* C26: a SCROLL frame of a wheel event is sent only by a wheel event, at
\* least WHEEL_THROTTLE_MS (50 ms) after the previous one, alone, and carries
\* max(1, round(|deltaY| / 40) * 3) lines: 9 for deltaY = -100, 1 for 10 and
\* for 0, never less than 1.
C26_WheelThrottledLineCount ==
    [][SentBy(out', "wheel") =>
          /\ sinceWheelFrame >= 50
          /\ sinceWheelFrame' = 0
          /\ Len(out') = 1
          /\ \E deltaY \in WheelDeltas :
                /\ Wheel(deltaY)
                /\ \E n \in 1..60 :
                      /\ n = Max(1, Round(Abs(deltaY), 40) * 3)
                      /\ out'[1].frame = ScrollFrame(IF deltaY < 0 THEN "up" ELSE "down", n)
          /\ out'[1].frame \in {"SCROLL:up:9", "SCROLL:down:1"}]_vars

\* A wheel event has been dropped by the throttle: the socket is open, the
\* previous wheel frame is less than 50 ms old, and nothing was sent.
C26_Witness ==
    /\ ev = "wheel"
    /\ out = << >>
    /\ IsOpen(Cur, wsRef)
    /\ sinceWheelFrame < 50

\* The decay loops that are running.
Running == {j \in Loops : momentum[j] # NoMomentum}

\* C27: a decay loop starts only at a touch end with a velocity of at least
\* 0.3 px/ms and the socket open; each of its frames multiplies the velocity
\* by 0.85, so its magnitude shrinks, and the loop stops as soon as the
\* magnitude is below 0.1; the next touch start and the unmount leave no
\* loop running.
C27_MomentumLoopTerminates ==
    [][/\ \A j \in Loops :
             /\ (j \notin Running /\ momentum'[j] # NoMomentum) =>
                   /\ ev' = "touchend"
                   /\ Abs(touchVelocity) >= 300000
                   /\ IsOpen(Cur, wsRef)
                   /\ momentum'[j].velocity = touchVelocity
             /\ (j \in Running /\ momentum'[j] # NoMomentum /\ momentum'[j] # momentum[j]) =>
                   /\ ev' = "momentum"
                   /\ momentum'[j].velocity = Decayed(momentum[j].velocity)
                   /\ Abs(momentum'[j].velocity) < Abs(momentum[j].velocity)
                   /\ Abs(momentum'[j].velocity) >= 100000
             /\ (j \in Running /\ MomentumFrame(j)
                   /\ Abs(Decayed(momentum[j].velocity)) < 100000) =>
                   (momentum'[j] = NoMomentum /\ out' = << >>)
       /\ ev' \in {"touchstart", "unmount"} => \A j \in Loops : momentum'[j] = NoMomentum]_vars

\* C28: a touch move less than 10 px from the touch start sends nothing and
\* changes neither the velocity, the last position, the throttle clock, the
\* scroll-mode flag nor the decay loops; a SCROLL frame of a touch move is
\* sent only by a touch move, alone, at least 50 ms after the previous one.
C28_TouchDeadZoneAndThrottle ==
    [][/\ \A y \in Ys :
             (TouchMove(y) /\ Abs(y - touchStartY) < 10) =>
                /\ out' = << >>
                /\ touchVelocity' = touchVelocity
                /\ touchLastY' = touchLastY
                /\ sinceTouch' = sinceTouch
                /\ inScrollMode' = inScrollMode
                /\ momentum' = momentum
       /\ SentBy(out', "touch") =>
             /\ sinceTouchFrame >= 50
             /\ sinceTouchFrame' = 0
             /\ Len(out') = 1
             /\ \E y \in Ys : TouchMove(y) /\ Abs(y - touchStartY) >= 10]_vars

\* A touch move inside the dead zone has been ignored although the socket is
\* open, select mode is off and the throttle would have let it pass.
C28_Witness ==
    /\ ev = "touchmove"
    /\ out = << >>
    /\ IsOpen(Cur, wsRef)
    /\ ~selectMode
    /\ sinceTouch >= 50
    /\ touchLastY # touchStartY

\* The frames of n backspaces sent by sendToWs on socket k.
BackspaceFrames(k, n) ==
    [i \in 1..n |-> [sock |-> k, kind |-> "RAW", frame |-> "DEL", by |-> "sendToWs",
                     rs |-> "OPEN"]]

\* The frame of a text sent by sendToWs on socket k.
TextFrames1(k, text) ==
    <<[sock |-> k, kind |-> "RAW", frame |-> Str(text), by |-> "sendToWs", rs |-> "OPEN"]>>

\* C25: with the socket open and no composition active, an input event that
\* makes the field's value longer than it was sends exactly the characters
\* past the old length, and one that makes it shorter by k characters sends
\* exactly k backspaces; while a composition is active input events send
\* nothing; at composition end the characters past the value before the
\* composition are sent once, and an input event that follows with the same
\* value sends nothing.
C25_TextBridgeDiffsAgainstPreviousValue ==
    [][/\ \A newVal \in Texts :
             (InputEvent(newVal) /\ IsOpen(Cur, wsRef)) =>
                IF composing THEN out' = << >>
                ELSE IF Len(newVal) > Len(inputValue)
                     THEN out' = TextFrames1(wsRef, Slice(newVal, Len(inputValue)))
                ELSE IF Len(newVal) < Len(inputValue)
                     THEN out' = BackspaceFrames(wsRef, Len(inputValue) - Len(newVal))
                ELSE out' = << >>
       /\ (CompositionEnd /\ IsOpen(Cur, wsRef)) =>
             /\ IF Len(inputValue) > Len(prevInput)
                THEN out' = TextFrames1(wsRef, Slice(inputValue, Len(prevInput)))
                ELSE out' = << >>
             /\ prevInput' = inputValue
             /\ ~composing'
       /\ (ev = "compositionend" /\ InputEvent(inputValue)) => out' = << >>]_vars

\* C29: when the container has no size, a fit is retried in at most 3 further
\* animation frames: a retry that still finds no size only counts the
\* retries down, sending and writing nothing and leaving the sockets and the
\* terminal size alone, and only a new fit request raises the count again,
\* never above 3; a queued retry chain always comes to an end; meanwhile a
\* typed key is still sent and output is still written.
C29_FitRetryBoundedAndHarmless ==
    /\ [](fitPending \in 0..3)
    /\ [][/\ FitRetry => fitPending' < fitPending
          /\ (FitRetry /\ proposed = NoDims) =>
                /\ attached => fitPending' = fitPending - 1
                /\ out' = << >>
                /\ written' = << >>
                /\ socks' = socks
                /\ wsRef' = wsRef
                /\ termDims' = termDims
                /\ lastSentDims' = lastSentDims
          /\ fitPending' > fitPending => (proposed' = NoDims /\ ev' \in {"input", "mount"})
          /\ (KeyDown("a") /\ attached /\ IsOpen(Cur, wsRef)) =>
                out' = <<[sock |-> wsRef, kind |-> "RAW", frame |-> "a", by |-> "onData",
                          rs |-> "OPEN"]>>
          /\ \A k \in Slots : Message(k, Bytes) => written' = <<"bytes">>]_vars
    /\ (fitPending > 0 ~> fitPending = 0)

\* The retries have run out on a container that still has no size, with the
\* socket open.
C29_Witness ==
    /\ attached
    /\ proposed = NoDims
    /\ fitPending = 0
    /\ IsOpen(Cur, wsRef)

\* The statements in a sequence of them.
Statements(seq) == {seq[i] : i \in 1..Len(seq)}

\* Every statement of `first` that the last step ran, it ran before every
\* statement of `then` that it ran.
Before(first, then) ==
    \A i, j \in 1..Len(steps) : (steps[i] \in first /\ steps[j] \in then) => i < j

TimerCancels == {"cancelAnimationFrame(rafId)", "clearTimeout(reconnectTimer)"}

MomentumStop == {"cancelAnimationFrame(momentumRafId)"}

ListenerDetaches ==
    Statements(ManagerListeners) \cup Statements(WrapperListeners)
        \cup {"oscDisposable.dispose()", "selectionDisposable.dispose()"}

SocketCloses == {"ws.onclose = null", "ws.close()"}

\* Disposal is one step: after it the manager is disposed, no timer is
\* pending, the frame of the momentum loop is cancelled, no listener is
\* attached, and the socket is closing or closed with its close handler
\* detached; nothing is sent.
DisposalIsOneStep ==
    Unmount =>
        /\ disposed'
        /\ reconnectTimer' = NoTimer
        /\ momentumRafId' = 0
        /\ ~attached'
        /\ wsRef' = NoSock
        /\ out' = << >>
        /\ currentClose # NoSock =>
              /\ ~socks'[currentClose].onclose
              /\ socks'[currentClose].readyState \notin {"CONNECTING", "OPEN"}

\* C30 as stated: disposal cancels the pending timers, then stops the
\* momentum loop, then detaches every event listener, and only then closes
\* the socket, whose close handler is detached first, all in one step.
C30_DisposalOrder ==
    /\ [](ev = "unmount" =>
            /\ Before(TimerCancels, MomentumStop)
            /\ Before(MomentumStop, ListenerDetaches)
            /\ Before(ListenerDetaches, SocketCloses)
            /\ Before({"ws.onclose = null"}, {"ws.close()"}))
    /\ [][DisposalIsOneStep]_vars

\* C30: disposal is one step which, in this order, cancels the animation
\* frame of the initial fit, cancels the animation frame of the momentum
\* loop, disposes the title and selection handlers, marks the manager
\* disposed, clears a pending reconnect timer, removes the manager's
\* listeners (click, visibilitychange, the terminal's data, binary, resize
\* and scroll handlers), detaches the socket's close handler and closes the
\* socket, and only after that removes the wrapper's listeners (resize
\* observer, paste, drag, drop, wheel, touch) and disposes the terminal.
C30_DisposalOrderAsCoded ==
    /\ [](ev = "unmount" =>
            /\ steps[1] = "cancelAnimationFrame(rafId)"
            /\ steps[2] = "cancelAnimationFrame(momentumRafId)"
            /\ SubSeq(steps, 3, 5) =
                  <<"oscDisposable.dispose()", "selectionDisposable.dispose()", "disposed = true">>
            /\ Before({"disposed = true"}, {"clearTimeout(reconnectTimer)"})
            /\ Before({"clearTimeout(reconnectTimer)"}, Statements(ManagerListeners))
            /\ Statements(ManagerListeners) \subseteq Statements(steps)
            /\ Before(Statements(ManagerListeners), SocketCloses)
            /\ SocketCloses \subseteq Statements(steps)
            /\ Before({"ws.onclose = null"}, {"ws.close()"})
            /\ Before(SocketCloses, Statements(WrapperListeners))
            /\ Statements(WrapperListeners) \subseteq Statements(steps)
            /\ steps[Len(steps)] = "term.dispose()")
    /\ [][DisposalIsOneStep]_vars

\* A disposal after a swipe has cleared a pending reconnect timer and has
\* closed the last socket of the manager.
C30_Witness ==
    /\ ev = "unmount"
    /\ "clearTimeout(reconnectTimer)" \in Statements(steps)
    /\ "ws.close()" \in Statements(steps)
    /\ touchVelocity # 0

\* No reconnect timer is queued twice, and while one is pending there is no
\* current socket and no socket is connecting or open.
OneTimerAndNoSocketWhilePending ==
    /\ timers <= 1
    /\ (timers = 1) = (reconnectTimer # NoTimer)
    /\ timers > 0 =>
          /\ wsRef = NoSock
          /\ \A k \in Slots : socks[k].readyState \notin {"CONNECTING", "OPEN"}

\* The close event of the manager's socket.
ManagedClose(k) == SocketClose(k) /\ socks[k].onclose /\ ~disposed

\* C31 as stated: at most one reconnect timer is pending, and while one is
\* pending there is no current socket and no attempt in flight; an error
\* event changes nothing, and the close event that follows it schedules
\* exactly one timer and increments the attempt counter exactly once.
C31_OneTimerPerClose ==
    /\ []OneTimerAndNoSocketWhilePending
    /\ [][\A k \in Slots :
            /\ SocketError(k) => (ProgramState' = ProgramState /\ out' = << >>)
            /\ ManagedClose(k) =>
                  /\ timers' = timers + 1
                  /\ reconnectAttempt' = reconnectAttempt + 1]_vars

\* C31: at most one reconnect timer is pending, and while one is pending
\* there is no current socket and no attempt in flight; an error event
\* changes nothing, and the close event that follows it schedules exactly one
\* timer and increments the attempt counter exactly once while fewer than
\* RECONNECT_MAX_ATTEMPTS retries are counted; once they are used up it
\* schedules no timer, leaves the counter alone and arms tap-to-reconnect.
C31_OneTimerPerCloseWhileRetriesRemain ==
    /\ []OneTimerAndNoSocketWhilePending
    /\ [][\A k \in Slots :
            /\ SocketError(k) => (ProgramState' = ProgramState /\ out' = << >>)
            /\ (ManagedClose(k) /\ reconnectAttempt < RECONNECT_MAX_ATTEMPTS) =>
                  /\ timers' = timers + 1
                  /\ reconnectAttempt' = reconnectAttempt + 1
                  /\ ~tapToReconnectActive'
            /\ (ManagedClose(k) /\ reconnectAttempt >= RECONNECT_MAX_ATTEMPTS) =>
                  /\ timers' = 0
                  /\ reconnectAttempt' = reconnectAttempt
                  /\ tapToReconnectActive']_vars

\* The close of a socket that had opened has scheduled the first retry.
C31_Witness ==
    /\ ev = "close"
    /\ everOpened
    /\ timers = 1
    /\ reconnectAttempt = 1
    /\ wsRef = NoSock

\* C32: the attempt counter is always between 0 and RECONNECT_MAX_ATTEMPTS
\* (15), and tap-to-reconnect is armed only when the counter equals 15, no
\* reconnect timer is pending and no socket is connecting or open.
C32_CounterBoundedAndTapOnlyWhenExhausted ==
    /\ reconnectAttempt \in 0..RECONNECT_MAX_ATTEMPTS
    /\ tapToReconnectActive =>
          /\ reconnectAttempt = RECONNECT_MAX_ATTEMPTS
          /\ reconnectTimer = NoTimer
          /\ timers = 0
          /\ \A k \in Slots : socks[k].readyState \notin {"CONNECTING", "OPEN"}

\* The retries are used up: tap-to-reconnect has just been armed by the
\* close of the last attempt.
C32_Witness ==
    /\ ev = "close"
    /\ tapToReconnectActive
    /\ ~disposed
    /\ reconnectAttempt = RECONNECT_MAX_ATTEMPTS

\* C33: a click on the terminal element while tap-to-reconnect is not armed,
\* or on a disposed manager, changes nothing: no socket is closed or created,
\* no timer is cancelled, the attempt counter is unchanged, and nothing is
\* sent or written.
C33_ClickWithoutTapArmedChangesNothing ==
    [][(Click /\ (~tapToReconnectActive \/ disposed)) =>
          /\ ProgramState' = ProgramState
          /\ ~NewSocket
          /\ out' = << >>
          /\ written' = << >>]_vars

\* A click while a reconnect timer is pending: the timer and the counter
\* are still there.
C33_Witness ==
    /\ ev = "click"
    /\ ~disposed
    /\ timers = 1
    /\ reconnectAttempt = 2

\* C34: wsRef.current is null or the socket doConnect created last, and it
\* is set only from that socket's open event until its close event or its
\* replacement; the open or close event of a superseded socket never sets
\* the reference and never schedules a reconnect.
C34_SocketReferenceOwnedByManager ==
    /\ [](wsRef # NoSock =>
            /\ wsRef = currentClose
            /\ ~disposed
            /\ socks[wsRef].readyState \in {"OPEN", "CLOSING"}
            /\ socks[wsRef].onclose)
    /\ [][/\ (wsRef' # NoSock /\ wsRef' # wsRef) =>
                (SocketOpen(currentClose) /\ wsRef' = currentClose)
          /\ \A k \in Slots \ {currentClose} :
                (SocketOpen(k) \/ SocketClose(k)) =>
                    /\ wsRef' = wsRef
                    /\ timers' = timers
                    /\ reconnectTimer' = reconnectTimer
                    /\ reconnectAttempt' = reconnectAttempt
                    /\ tapToReconnectActive' = tapToReconnectActive
                    /\ written' = << >>]_vars

\* The close event of a superseded socket has arrived while its replacement
\* is open and current.
C34_Witness ==
    /\ ev = "close"
    /\ wsRef # NoSock
    /\ wsRef = currentClose
    /\ socks[wsRef].readyState = "OPEN"
    /\ reconnectAttempt = 0
    /\ timers = 0

\* A SELECT_WINDOW frame is among the frames of `o`.
SelectSent(o) == \E i \in 1..Len(o) : o[i].kind = "SELECT_WINDOW"

\* C35: a windowIndex change while the socket is not open sends nothing, in
\* that step or later (a SELECT_WINDOW frame is only ever sent by the step
\* of a windowIndex change that finds the socket open); every socket of
\* the manager, a reconnect's included, is opened with the URL built from
\* the windowIndex the manager was created with, and that URL never changes.
C35_WindowSwitchNeverReplayedUrlFixed ==
    /\ [](wsUrl = WsUrl(0))
    /\ [](\A k \in Slots : socks[k].readyState # "NONE" => socks[k].url = wsUrl)
    /\ [][/\ \A n \in 0..MaxWindow :
                (WindowSwitch(n) /\ ~IsOpen(Cur, wsRef)) => out' = << >>
          /\ SelectSent(out') =>
                /\ IsOpen(Cur, wsRef)
                /\ windowIndex' # windowIndex
                /\ \E n \in 0..MaxWindow : WindowSwitch(n)
          /\ wsUrl' = wsUrl]_vars

\* The window was switched while the socket was down, and the reconnect's
\* socket has opened with the URL of the window the manager started with.
C35_Witness ==
    /\ ev = "open"
    /\ hasConnectedOnce
    /\ failures = 0
    /\ wsRef # NoSock
    /\ windowIndex = 1
    /\ socks[wsRef].url = WsUrl(0)
    /\ out = << >>
    /\ "[Reconnected]" \in {written[i] : i \in 1..Len(written)}

\* The uploads a paste or drop step has started.
Started == SubSeq(uploads', Len(uploads) + 1, Len(uploads'))

\* C36: an upload started by a paste or drop holds the socket that was
\* current at that event (or none), and its result is sent on that socket
\* only: when there was none, or it has been closed or replaced before the
\* upload completes, nothing is sent, even if a newer socket is open then.
C36_UploadResultOnlyOnSocketOfTheEvent ==
    [][/\ ((\E items \in PasteEvents : Paste(items)) \/ (\E e \in DropEvents : Drop(e))) =>
            /\ Len(uploads') >= Len(uploads)
            /\ SubSeq(uploads', 1, Len(uploads)) = uploads
            /\ \A j \in 1..Len(Started) : Started[j].ws = wsRef
       /\ \A i \in 1..MaxUploads, outcome \in {"ok", "failed", "threw"} :
            UploadDone(i, outcome) =>
               /\ \A j \in 1..Len(out') : out'[j].sock = uploads[i].ws
               /\ (\/ uploads[i].ws = NoSock
                   \/ uploads[i].ws # wsRef
                   \/ socks[uploads[i].ws].readyState # "OPEN") => out' = << >>]_vars

\* An upload has completed successfully after a reconnect replaced the socket
\* of its event (or had none): nothing is sent or written, though the new
\* socket is open.
C36_Witness ==
    /\ ev = "upload"
    /\ out = << >>
    /\ written = << >>
    /\ hasConnectedOnce
    /\ IsOpen(Cur, wsRef)
    /\ wsRef = 2
    /\ reconnectAttempt = 0

\* The SCROLL:exit frames among the frames of `o`.
Exits(o) == {i \in 1..Len(o) : o[i].frame = "SCROLL:exit"}

\* C37: a SCROLL:exit frame is sent only by a step that finds the
\* scroll-mode flag true and clears it, and one frame at most, so no two
\* SCROLL:exit frames are sent without the flag being set in between; a typed
\* key clears the flag whether or not the socket is open; a socket's open
\* and close events, the reconnect timer and a window switch leave the flag
\* as it is.
C37_ScrollExitOnlyFromScrollMode ==
    [][/\ Exits(out') # {} =>
            /\ inScrollMode
            /\ ~inScrollMode'
            /\ Cardinality(Exits(out')) = 1
       /\ (KeyDown("a") /\ attached) => ~inScrollMode'
       /\ \A k \in Slots : (SocketOpen(k) \/ SocketClose(k)) => inScrollMode' = inScrollMode
       /\ TimerFire => inScrollMode' = inScrollMode
       /\ \A n \in 0..MaxWindow : WindowSwitch(n) => inScrollMode' = inScrollMode]_vars

\* A typed key has been forwarded and has ended the scroll mode.
C37_Witness ==
    /\ ev = "input"
    /\ Len(out) = 2
    /\ out[1].by = "onData"
    /\ out[2].frame = "SCROLL:exit"
    /\ ~inScrollMode

\* C38: a key typed while the scroll-mode flag is true and the socket is
\* open sends exactly two frames on that socket: first the raw input bytes,
\* then SCROLL:exit.
C38_InputBytesBeforeScrollExit ==
    [][(KeyDown("a") /\ attached /\ inScrollMode /\ IsOpen(Cur, wsRef)) =>
          /\ Frames(out') = <<"a", "SCROLL:exit">>
          /\ out'[1].by = "onData"
          /\ out'[2].by = "scrollExit"
          /\ \A i \in 1..2 : out'[i].sock = wsRef /\ out'[i].rs = "OPEN"]_vars

\* The key "a" and then SCROLL:exit went out on the current socket.
C38_Witness ==
    /\ Frames(out) = <<"a", "SCROLL:exit">>
    /\ wsRef # NoSock
    /\ \A i \in 1..2 : out[i].sock = wsRef

\* Position of the session with this id in an array of sessions.
IndexOf(arr, id) == CHOOSE i \in 1..Len(arr) : arr[i].id = id

\* C39: sortSessionsByOrder returns a permutation of the sessions in which
\* the sessions whose id is in the order array come first, in the order of
\* that array, followed by the others in the order they had in the input; the
\* array given is not changed by the call, and with an empty order array the
\* array given is itself returned.
C39_SortSessionsByOrder ==
    /\ [](sorted.called =>
            LET ret == sorted.ret
            IN /\ Len(ret) = Len(sessions)
               /\ {ret[i] : i \in 1..Len(ret)} = {sessions[i] : i \in 1..Len(sessions)}
               /\ \A i, j \in 1..Len(ret) :
                     i < j =>
                        /\ orderMapHas(order, ret[j].id) => orderMapHas(order, ret[i].id)
                        /\ (orderMapHas(order, ret[i].id) /\ orderMapHas(order, ret[j].id)) =>
                              \E p, q \in 1..Len(order) :
                                 p < q /\ order[p] = ret[i].id /\ order[q] = ret[j].id
                        /\ (~orderMapHas(order, ret[i].id) /\ ~orderMapHas(order, ret[j].id)) =>
                              IndexOf(sessions, ret[i].id) < IndexOf(sessions, ret[j].id)
               /\ order = << >> => (ret = sessions /\ sorted.same))
    /\ [][SortCall => sessions' = sessions]_vars

\* Three sessions were sorted: the one named in the order array has moved to
\* the front, the other two follow in their input order.
C39_Witness ==
    /\ sorted.called
    /\ order = <<"c">>
    /\ sessions = <<[id |-> "b"], [id |-> "a"], [id |-> "c"]>>
    /\ sorted.ret = <<[id |-> "c"], [id |-> "b"], [id |-> "a"]>>

=========================================================================
